---- MODULE Spec2Model ----
(***************************************************************************)
(* MiniGit: a model of the repository operations of minigit.cpp and of the *)
(* object model (Blob, Commit, Branch) with their text wire format.        *)
(*                                                                         *)
(* A std::string is a sequence of one-character strings, so that           *)
(* to_string / from_string are modelled by what they do to the text.       *)
(* A std::shared_ptr is a sequence of length at most one: <<>> is nullptr, *)
(* <<obj>> points to obj.  A std::map is a function whose domain is the    *)
(* set of keys; iteration over it is in ascending key order.               *)
(***************************************************************************)
EXTENDS Integers, Sequences, FiniteSets, TLC

(***************************************************************************)
(* Bounds of the model.                                                    *)
(***************************************************************************)
MaxSteps == 5        \* operations in a session that starts on a new directory
MaxRepoSteps == 2    \* operations in a session that opens an existing repository
MaxMergeSteps == 1   \* operations in a session that opens a repository with two diverged branches
MaxTime == 2         \* std::time(nullptr) returns a value in 1..MaxTime

(***************************************************************************)
(* Characters and string literals.                                         *)
(***************************************************************************)
NL == "\n"
SP == " "
nullptr == <<>>

\* the element of a one-element set; Only({e(x) : x \in {v}}) is e computed
\* with the local variable x holding the value v
Only(S) == CHOOSE x \in S : TRUE

\* the characters the model uses, in ASCII order
AsciiOrder ==
  << "\n", " ", "#", "'", "+", "-", "/", "0", "1", "2", "3", "4", "5", "6", "7", "8", "9",
     "<", "=", ">", "A", "B", "C", "D", "E", "G", "H", "M", "R", "T", "_",
     "a", "b", "c", "d", "e", "f", "g", "h", "i", "k", "l", "m", "n", "o",
     "p", "r", "s", "t", "u", "v", "w", "x", "y", "z" >>

Ord(c) == CHOOSE i \in 1..Len(AsciiOrder) : AsciiOrder[i] = c

\* operator< of std::string (lexicographic, by character code)
RECURSIVE StrLess(_, _)
StrLess(s, t) ==
  IF t = <<>> THEN FALSE
  ELSE IF s = <<>> THEN TRUE
  ELSE IF s[1] # t[1] THEN Ord(s[1]) < Ord(t[1])
  ELSE StrLess(Tail(s), Tail(t))

\* the keys of a std::map in iteration order
RECURSIVE SortedKeys(_)
SortedKeys(S) ==
  IF S = {} THEN <<>>
  ELSE Only({<<m>> \o SortedKeys(S \ {m}) :
          m \in {CHOOSE k \in S : \A o \in S \ {k} : StrLess(k, o)}})

RECURSIVE Flatten(_)
Flatten(ss) == IF ss = <<>> THEN <<>> ELSE ss[1] \o Flatten(Tail(ss))

Digits == <<"0", "1", "2", "3", "4", "5", "6", "7", "8", "9">>
IsDigit(c) == \E i \in 1..10 : Digits[i] = c
DigitVal(c) == (CHOOSE i \in 1..10 : Digits[i] = c) - 1

\* operator<< of an unsigned number: its decimal digits
RECURSIVE Dec(_)
Dec(n) == IF n < 10 THEN <<Digits[n + 1]>> ELSE Dec(n \div 10) \o <<Digits[(n % 10) + 1]>>

\* std::stoul / std::stoll: the value of the leading digits; without a
\* leading digit the call throws std::invalid_argument
StoulThrows(s) == s = <<>> \/ ~IsDigit(s[1])

RECURSIVE StoulAcc(_, _)
StoulAcc(s, acc) ==
  IF s = <<>> \/ ~IsDigit(s[1]) THEN acc
  ELSE StoulAcc(Tail(s), acc * 10 + DigitVal(s[1]))

stoul(s) == StoulAcc(s, 0)

starts_with(s, p) == Len(s) >= Len(p) /\ SubSeq(s, 1, Len(p)) = p

\* s.substr(pos) with a 0-based position pos <= s.size()
substr(s, pos) == SubSeq(s, pos + 1, Len(s))

\* s.find(c, from): 0-based position of the first c at or after from; npos
\* is modelled as -1, so that npos + 1 = 0 as in size_t arithmetic
Npos == -1
find(s, c, from) ==
  Only({IF hits = {} THEN Npos
      ELSE (CHOOSE i \in hits : \A j \in hits : i <= j) - 1 :
          hits \in {{i \in (from + 1)..Len(s) : s[i] = c}}})

\* utils::split: std::getline tokens; no token after a trailing delimiter
RECURSIVE split(_, _)
split(str, delimiter) ==
  IF str = <<>> THEN <<>>
  ELSE Only({IF p = Npos THEN <<str>>
           ELSE <<SubSeq(str, 1, p)>> \o split(substr(str, p + 1), delimiter) :
          p \in {find(str, delimiter, 0)}})

\* utils::sha1_hash: a collision-free digest, modelled as an injective
\* encoding of the input into characters other than space and newline
HexChar(c) == IF c = NL THEN "n" ELSE IF c = SP THEN "_" ELSE c
sha1_hash(input) == <<"#">> \o [i \in 1..Len(input) |-> HexChar(input[i])]

kw_blob == <<"b", "l", "o", "b", " ">>
kw_filename == <<"f", "i", "l", "e", "n", "a", "m", "e", " ">>
kw_content == <<"c", "o", "n", "t", "e", "n", "t", " ">>
kw_commit == <<"c", "o", "m", "m", "i", "t", " ">>
kw_message == <<"m", "e", "s", "s", "a", "g", "e", " ">>
kw_author == <<"a", "u", "t", "h", "o", "r", " ">>
kw_timestamp == <<"t", "i", "m", "e", "s", "t", "a", "m", "p", " ">>
kw_parents == <<"p", "a", "r", "e", "n", "t", "s", " ">>
kw_parent == <<"p", "a", "r", "e", "n", "t", " ">>
kw_files == <<"f", "i", "l", "e", "s", " ">>
kw_file == <<"f", "i", "l", "e", " ">>
kw_branch == <<"b", "r", "a", "n", "c", "h", " ">>
user == <<"u", "s", "e", "r">>
main == <<"m", "a", "i", "n">>

(***************************************************************************)
(* Blob                                                                    *)
(***************************************************************************)
\* the file name is hashed with the content
Blob_named(content, filename) ==
  [hash |-> sha1_hash(filename \o content), content |-> content, filename |-> filename]

Blob(content, filename) ==
  [hash |-> sha1_hash(content), content |-> content, filename |-> filename]

Blob_to_string(b) ==
  kw_blob \o b.hash \o <<NL>> \o
  kw_filename \o b.filename \o <<NL>> \o
  kw_content \o Dec(Len(b.content)) \o <<NL>> \o
  b.content

\* the result is a pointer; an exception is reported by Blob_from_string_throws
Blob_from_string(data) ==
  Only({IF Len(lines) < 4 THEN nullptr
        ELSE IF ~starts_with(lines[1], kw_blob) THEN nullptr
        ELSE IF ~starts_with(lines[2], kw_filename) THEN nullptr
        ELSE IF ~starts_with(lines[3], kw_content) THEN nullptr
        ELSE <<[Blob(IF content_start < Len(data)
                     THEN substr(data, content_start) ELSE <<>>,
                     substr(lines[2], 9))
                  EXCEPT !.hash = substr(lines[1], 5)]>> :
          lines \in {split(data, NL)},
          content_start \in {find(data, NL, find(data, NL, find(data, NL, 0) + 1) + 1) + 1}})

\* std::stoul of the content length throws
Blob_from_string_throws(data) ==
  \E lines \in {split(data, NL)} :
     /\ Len(lines) >= 4
     /\ starts_with(lines[1], kw_blob)
     /\ starts_with(lines[2], kw_filename)
     /\ starts_with(lines[3], kw_content)
     /\ StoulThrows(substr(lines[3], 8))

(***************************************************************************)
(* Commit                                                                  *)
(***************************************************************************)
\* MiniGit::compute_hash
compute_hash(content) == sha1_hash(content)

\* Commit::Commit: the hash member is default-constructed (empty)
Commit(msg, auth, now) ==
  [hash |-> <<>>, message |-> msg, author |-> auth, timestamp |-> now,
   parent_hashes |-> <<>>, file_blobs |-> <<>>]

has_parent(c, parent_hash) ==
  \E i \in 1..Len(c.parent_hashes) : c.parent_hashes[i] = parent_hash

add_parent(c, parent_hash) ==
  IF ~has_parent(c, parent_hash)
  THEN [c EXCEPT !.parent_hashes = Append(@, parent_hash)]
  ELSE c

\* m[key] = value of a std::map
MapPut(m, key, value) ==
  [k \in DOMAIN m \cup {key} |-> IF k = key THEN value ELSE m[k]]

add_file(c, filename, blob_hash) ==
  [c EXCEPT !.file_blobs = MapPut(@, filename, blob_hash)]

is_initial_commit(c) == c.parent_hashes = <<>>

Commit_to_string(c) ==
  Only({kw_commit \o c.hash \o <<NL>> \o
     kw_message \o c.message \o <<NL>> \o
     kw_author \o c.author \o <<NL>> \o
     kw_timestamp \o Dec(c.timestamp) \o <<NL>> \o
     kw_parents \o Dec(Len(c.parent_hashes)) \o <<NL>> \o
     Flatten([i \in 1..Len(c.parent_hashes) |->
                kw_parent \o c.parent_hashes[i] \o <<NL>>]) \o
     kw_files \o Dec(Cardinality(DOMAIN c.file_blobs)) \o <<NL>> \o
     Flatten([i \in 1..Len(names) |->
                kw_file \o names[i] \o <<SP>> \o c.file_blobs[names[i]] \o <<NL>>]) :
          names \in {SortedKeys(DOMAIN c.file_blobs)}})

\* the loop "for i < parents_count && line_index < lines.size()" of from_string
RECURSIVE ParseParents(_, _, _, _)
ParseParents(c, lines, line_index, remaining) ==
  IF remaining = 0 \/ line_index > Len(lines) THEN [commit |-> c, line_index |-> line_index]
  ELSE ParseParents(
         IF starts_with(lines[line_index], kw_parent)
         THEN add_parent(c, substr(lines[line_index], 7)) ELSE c,
         lines, line_index + 1, remaining - 1)

\* one "file <name> <hash>" line of from_string
ParseFileLine(c, file_info, space_pos) ==
  IF space_pos # Npos
  THEN add_file(c, SubSeq(file_info, 1, space_pos), substr(file_info, space_pos + 1))
  ELSE c

\* the loop "for i < files_count && line_index < lines.size()" of from_string
RECURSIVE ParseFiles(_, _, _, _)
ParseFiles(c, lines, line_index, remaining) ==
  IF remaining = 0 \/ line_index > Len(lines) THEN c
  ELSE ParseFiles(
         IF starts_with(lines[line_index], kw_file)
         THEN ParseFileLine(c, substr(lines[line_index], 5),
                            find(substr(lines[line_index], 5), SP, 0))
         ELSE c,
         lines, line_index + 1, remaining - 1)

\* line_index is 1-based here (lines[6] is the C++ lines[5])
\* the "files" section of from_string, after the parents were read
ParseFilesSection(pp, lines) ==
  IF pp.line_index <= Len(lines) /\ starts_with(lines[pp.line_index], kw_files)
  THEN <<ParseFiles(pp.commit, lines, pp.line_index + 1,
                    stoul(substr(lines[pp.line_index], 6)))>>
  ELSE <<pp.commit>>

\* from_string after the header was accepted: the object, its parents, its files
ParseBody(lines) ==
  Only({ParseFilesSection(pp, lines) :
          pp \in {ParseParents([Commit(substr(lines[2], 8), substr(lines[3], 7),
                                       stoul(substr(lines[4], 10)))
                                  EXCEPT !.hash = substr(lines[1], 7)],
                               lines, 6, stoul(substr(lines[5], 8)))}})

Commit_from_string(data) ==
  Only({IF Len(lines) < 5 THEN nullptr
        ELSE IF ~starts_with(lines[1], kw_commit) THEN nullptr
        ELSE IF ~starts_with(lines[2], kw_message) THEN nullptr
        ELSE IF ~starts_with(lines[3], kw_author) THEN nullptr
        ELSE IF ~starts_with(lines[4], kw_timestamp) THEN nullptr
        ELSE IF ~starts_with(lines[5], kw_parents) THEN nullptr
        ELSE ParseBody(lines) :
          lines \in {split(data, NL)}})

\* std::stoll of the timestamp or std::stoul of a count throws
Commit_from_string_throws(data) ==
  \E lines \in {split(data, NL)} :
     /\ Len(lines) >= 5
     /\ starts_with(lines[1], kw_commit)
     /\ starts_with(lines[2], kw_message)
     /\ starts_with(lines[3], kw_author)
     /\ starts_with(lines[4], kw_timestamp)
     /\ \/ StoulThrows(substr(lines[4], 10))
        \/ /\ starts_with(lines[5], kw_parents)
           /\ \/ StoulThrows(substr(lines[5], 8))
              \/ \E pp \in {ParseParents(Commit(<<>>, <<>>, 0), lines, 6,
                                         stoul(substr(lines[5], 8)))} :
                   /\ pp.line_index <= Len(lines)
                   /\ starts_with(lines[pp.line_index], kw_files)
                   /\ StoulThrows(substr(lines[pp.line_index], 6))

(***************************************************************************)
(* Branch                                                                  *)
(***************************************************************************)
Branch(name, commit_hash) == [name |-> name, commit_hash |-> commit_hash]

Branch_to_string(b) ==
  kw_branch \o b.name \o <<NL>> \o kw_commit \o b.commit_hash \o <<NL>>

Branch_from_string(data) ==
  Only({IF Len(lines) < 2 THEN nullptr
    ELSE IF ~starts_with(lines[1], kw_branch) THEN nullptr
    ELSE IF ~starts_with(lines[2], kw_commit) THEN nullptr
    ELSE <<Branch(substr(lines[1], 7), substr(lines[2], 7))>> :
          lines \in {split(data, NL)}})

(***************************************************************************)
(* State.  The directory .minigit on disk, and the members of MiniGit.     *)
(***************************************************************************)
VARIABLES
  dir_exists,      \* .minigit exists (utils::directory_exists(minigit_path))
  objects,         \* .minigit/objects: file name -> file content
  refs,            \* .minigit/refs: file name -> file content
  head_file,       \* content of .minigit/HEAD; empty when the file is absent
  is_initialized,  \* MiniGit::is_initialized
  current_branch,  \* MiniGit::current_branch
  branches,        \* MiniGit::branches: name -> Branch
  staging_area,    \* MiniGit::staging_area: filename -> Blob
  last,            \* the last call: its name, argument, result and what it built and printed
  steps,           \* number of calls made so far
  origin,          \* "new": the session started on a directory without .minigit
  made,            \* messages of the successful commits of this session, oldest first
  linear           \* only init, add, commit and log were called so far

vars == <<dir_exists, objects, refs, head_file, is_initialized, current_branch,
          branches, staging_area, last, steps, origin, made, linear>>

disk == <<dir_exists, objects, refs, head_file>>

EmptyMap == <<>>

(***************************************************************************)
(* Inputs.                                                                 *)
(***************************************************************************)
feat == <<"f", "e", "a", "t">>
BranchNames == {main, feat}
FileNames == {<<"a">>, <<"b">>}
Contents == {<<>>, <<"x">>, <<"y">>, <<"z">>}
Messages == {<<"f", "i", "r", "s", "t">>, <<"s", "e", "c", "o", "n", "d">>}
Times == 1..MaxTime
NoSuchTarget == <<"z", "z">>

(***************************************************************************)
(* Files of the repository directory.                                      *)
(***************************************************************************)
\* utils::read_file on a file of a directory: "" when it cannot be read
\* (absent, or the path names the directory itself: name = "")
read_file(dirmap, name) == IF name \in DOMAIN dirmap THEN dirmap[name] ELSE <<>>

\* utils::write_file on a file of a directory: an empty file name makes the
\* path the directory itself, std::ofstream cannot open it and nothing is written
write_file(dirmap, name, content) ==
  IF name = <<>> THEN dirmap ELSE MapPut(dirmap, name, content)

save_blob(objs, blob) == write_file(objs, blob.hash, Blob_to_string(blob))

load_blob(objs, hash) ==
  Only({IF blob_data = <<>> THEN nullptr ELSE Blob_from_string(blob_data) :
          blob_data \in {read_file(objs, hash)}})

load_blob_throws(objs, hash) == Blob_from_string_throws(read_file(objs, hash))

save_commit(objs, commit) == write_file(objs, commit.hash, Commit_to_string(commit))

load_commit(objs, hash) ==
  Only({IF commit_data = <<>> THEN nullptr ELSE Commit_from_string(commit_data) :
          commit_data \in {read_file(objs, hash)}})

save_head(commit_hash) == commit_hash

load_head == head_file

save_branch(rf, b) == write_file(rf, b.name, Branch_to_string(b))

\* the constructor's loop over utils::list_files(refs_path)
LoadBranches(rf) ==
  Only({[n \in {k \in DOMAIN rf : loaded[k] # nullptr} |-> loaded[n][1]] :
          loaded \in {[n \in DOMAIN rf |->
                         IF rf[n] # <<>> THEN Branch_from_string(rf[n]) ELSE nullptr]}})

(***************************************************************************)
(* Results of a call.                                                      *)
(***************************************************************************)
Result(op, arg, ret) ==
  [op |-> op, arg |-> arg, ret |-> ret, commit |-> nullptr,
   conflicts |-> {}, out |-> <<>>, report |-> ""]

\* the last line a call prints
Said(r, text) == [r EXCEPT !.report = text]

\* the number of calls the model follows a session for
Budget ==
  CASE origin = "new" -> MaxSteps
    [] origin = "repo" -> MaxRepoSteps
    [] origin = "fork" -> MaxMergeSteps

\* a call can be made: the process is alive and the session is within its bound
CanStep ==
  /\ last.ret \notin {"threw", "hangs"}
  /\ steps < Budget

Count == steps' = steps + 1 /\ UNCHANGED origin

(***************************************************************************)
(* MiniGit::MiniGit and MiniGit::init                                      *)
(***************************************************************************)
\* the members after the constructor ran on the given directory
Constructed(de, rf) ==
  /\ is_initialized = de
  /\ current_branch = (IF de THEN main ELSE <<>>)
  /\ branches = (IF de THEN LoadBranches(rf) ELSE EmptyMap)
  /\ staging_area = EmptyMap

\* the repository is created again whether or not it exists
init_again ==
  /\ CanStep
  /\ Count
  /\ dir_exists' = TRUE
  /\ current_branch' = main
  /\ branches' = MapPut(branches, main, Branch(main, <<>>))
  /\ refs' = save_branch(refs, Branch(main, <<>>))
  /\ is_initialized' = TRUE
  /\ last' = Said(Result("init", <<>>, "true"), "Initialized empty MiniGit repository")
  /\ UNCHANGED <<objects, head_file, staging_area, made, linear>>

init ==
  /\ CanStep
  /\ Count
  /\ IF is_initialized
     THEN /\ last' = Said(Result("init", <<>>, "true"),
                          "MiniGit repository already initialized")
          /\ UNCHANGED <<disk, is_initialized, current_branch, branches, staging_area>>
     ELSE /\ dir_exists' = TRUE
          /\ current_branch' = main
          /\ branches' = MapPut(branches, main, Branch(main, <<>>))
          /\ refs' = save_branch(refs, Branch(main, <<>>))
          /\ is_initialized' = TRUE
          /\ last' = Said(Result("init", <<>>, "true"), "Initialized empty MiniGit repository")
          /\ UNCHANGED <<objects, head_file, staging_area>>
  /\ UNCHANGED <<made, linear>>

(***************************************************************************)
(* MiniGit::add                                                            *)
(***************************************************************************)
\* a file that is staged already keeps its first blob
add_keep_first(filename, file_present, content) ==
  /\ CanStep
  /\ Count
  /\ IF ~is_initialized \/ ~file_present
     THEN /\ last' = Result("add", filename, "false")
          /\ UNCHANGED staging_area
     ELSE /\ staging_area' = IF filename \in DOMAIN staging_area THEN staging_area
                             ELSE MapPut(staging_area, filename, Blob(content, filename))
          /\ last' = Result("add", filename, "true")
  /\ UNCHANGED <<disk, is_initialized, current_branch, branches, made, linear>>

\* the file is staged without the test of is_initialized
add_anywhere(filename, file_present, content) ==
  /\ CanStep
  /\ Count
  /\ IF ~file_present
     THEN /\ last' = Result("add", filename, "false")
          /\ UNCHANGED staging_area
     ELSE /\ staging_area' = MapPut(staging_area, filename, Blob(content, filename))
          /\ last' = Result("add", filename, "true")
  /\ UNCHANGED <<disk, is_initialized, current_branch, branches, made, linear>>

\* file_present and content are the working file as utils::file_exists and
\* utils::read_file find it
add(filename, file_present, content) ==
  /\ CanStep
  /\ Count
  /\ IF ~is_initialized \/ ~file_present
     THEN /\ last' = Result("add", filename, "false")
          /\ UNCHANGED staging_area
     ELSE /\ staging_area' = MapPut(staging_area, filename, Blob(content, filename))
          /\ last' = Result("add", filename, "true")
  /\ UNCHANGED <<disk, is_initialized, current_branch, branches, made, linear>>

(***************************************************************************)
(* MiniGit::commit                                                         *)
(***************************************************************************)
\* the loop over staging_area: commit->add_file for every staged file
RECURSIVE AddStagedFiles(_, _, _)
AddStagedFiles(c, staging, names) ==
  IF names = <<>> THEN c
  ELSE AddStagedFiles(add_file(c, names[1], staging[names[1]].hash), staging, Tail(names))

\* the loop over staging_area: save_blob for every staged file
RECURSIVE SaveStagedBlobs(_, _, _)
SaveStagedBlobs(objs, staging, names) ==
  IF names = <<>> THEN objs
  ELSE SaveStagedBlobs(save_blob(objs, staging[names[1]]), staging, Tail(names))

\* a parent link is added whether or not there is a HEAD commit
CommitParents_unconditional(c, head_commit) == add_parent(c, head_commit)

\* the parent link of a new commit: HEAD when there is one
CommitParents(c, head_commit) ==
  IF head_commit # <<>> THEN add_parent(c, head_commit) ELSE c

\* the Commit object that commit() builds; its hash is never assigned
NewCommit(message, now, head_commit, staging) ==
  AddStagedFiles(CommitParents(Commit(message, user, now), head_commit),
                 staging, SortedKeys(DOMAIN staging))

\* every branch is set to the new commit, not only the current one
MoveCurrentBranch_all(brs, cur, hash) ==
  [n \in DOMAIN brs |-> [brs[n] EXCEPT !.commit_hash = hash]]

\* "Update HEAD and current branch": the Branch objects after the update
MoveCurrentBranch(brs, cur, hash) ==
  IF cur \in DOMAIN brs THEN [brs EXCEPT ![cur].commit_hash = hash] ELSE brs

\* "Update HEAD and current branch": refs after save_branch
SaveCurrentBranch(rf, brs, cur, hash) ==
  IF cur \in DOMAIN brs
  THEN save_branch(rf, MoveCurrentBranch(brs, cur, hash)[cur])
  ELSE rf

\* "staging_area.clear()" is left out
ClearStaging_keep(staging) == staging

\* "Clear staging area"
ClearStaging(staging) == EmptyMap

commit(message, now) ==
  /\ CanStep
  /\ Count
  /\ IF ~is_initialized
     THEN /\ last' = Said(Result("commit", message, "false"), "Not a MiniGit repository")
          /\ UNCHANGED <<disk, branches, staging_area, made>>
     ELSE IF staging_area = EmptyMap
     THEN /\ last' = Said(Result("commit", message, "false"), "No changes staged for commit")
          /\ UNCHANGED <<disk, branches, staging_area, made>>
     ELSE \E c \in {NewCommit(message, now, load_head, staging_area)} :
             /\ objects' = save_commit(
                  SaveStagedBlobs(objects, staging_area, SortedKeys(DOMAIN staging_area)), c)
             /\ head_file' = save_head(c.hash)
             /\ branches' = MoveCurrentBranch(branches, current_branch, c.hash)
             /\ refs' = SaveCurrentBranch(refs, branches, current_branch, c.hash)
             /\ staging_area' = ClearStaging(staging_area)
             /\ last' = [Result("commit", message, "true") EXCEPT !.commit = <<c>>]
             /\ made' = Append(made, message)
             /\ UNCHANGED dir_exists
  /\ UNCHANGED <<is_initialized, current_branch, linear>>

(***************************************************************************)
(* MiniGit::log                                                            *)
(***************************************************************************)
LogLimit == 100

\* one pass of the while loop of log: the value commit_hash has after it,
\* "" when the loop ends in this pass
LogStep(objs, commit_hash) ==
  IF commit_hash = <<>> THEN <<>>
  ELSE IF load_commit(objs, commit_hash) = nullptr THEN <<>>
  ELSE IF is_initial_commit(load_commit(objs, commit_hash)[1]) THEN <<>>
  ELSE load_commit(objs, commit_hash)[1].parent_hashes[1]

\* the values of commit_hash in n passes of the loop, the first half of the
\* passes and then the second (the evaluation stays shallow for a long walk)
RECURSIVE LogHashes(_, _, _)
RECURSIVE LogHashesAfter(_, _, _)
LogHashes(objs, commit_hash, n) ==
  IF n <= 0 THEN <<>>
  ELSE IF n = 1 THEN <<commit_hash>>
  ELSE LogHashesAfter(objs, LogHashes(objs, commit_hash, n \div 2), n - n \div 2)

\* the passes made, followed by n more
LogHashesAfter(objs, passed, n) ==
  passed \o LogHashes(objs, LogStep(objs, passed[Len(passed)]), n)

\* the commits printed: one for each pass that loaded a commit
LogPrinted(objs, hashes) ==
  [i \in 1..Cardinality({j \in 1..Len(hashes) :
                           hashes[j] # <<>> /\ load_commit(objs, hashes[j]) # nullptr}) |->
     load_commit(objs, hashes[i])[1]]

\* the loop stops as soon as commit_count reaches the limit
LogWalk_early_limit(objs, commit_hash, commit_count) ==
  LogPrinted(objs, LogHashes(objs, commit_hash, LogLimit - commit_count))

\* the while loop of log: the commits it prints, in order.  The loop ends
\* when commit_count, one per pass, exceeds LogLimit.
LogWalk(objs, commit_hash, commit_count) ==
  LogPrinted(objs, LogHashes(objs, commit_hash, LogLimit + 1 - commit_count))

log ==
  /\ CanStep
  /\ Count
  /\ IF ~is_initialized
     THEN last' = Result("log", <<>>, "false")
     ELSE IF load_head = <<>>
     THEN last' = Result("log", <<>>, "true")
     ELSE last' = [Result("log", <<>>, "true") EXCEPT !.out = LogWalk(objects, load_head, 0)]
  /\ UNCHANGED <<disk, is_initialized, current_branch, branches, staging_area, made, linear>>

(***************************************************************************)
(* MiniGit::branch and MiniGit::checkout                                   *)
(***************************************************************************)
\* "branches.find(branch_name) != branches.end()" never holds
BranchExists_never(brs, branch_name) == FALSE

\* "branches.find(branch_name) != branches.end()"
BranchExists(brs, branch_name) == branch_name \in DOMAIN brs

\* a branch is created without a commit, whatever HEAD holds
Branch_unborn(name, commit_hash) == [name |-> name, commit_hash |-> <<>>]

\* the Branch object that branch() builds from the HEAD commit
NewBranch(branch_name, current_commit) == Branch(branch_name, current_commit)

branch(branch_name) ==
  /\ CanStep
  /\ Count
  /\ linear' = FALSE
  /\ IF ~is_initialized
     THEN /\ last' = Said(Result("branch", branch_name, "false"), "Not a MiniGit repository")
          /\ UNCHANGED <<branches, refs>>
     ELSE IF BranchExists(branches, branch_name)
     THEN /\ last' = Said(Result("branch", branch_name, "false"), "Branch already exists")
          /\ UNCHANGED <<branches, refs>>
     ELSE /\ branches' = MapPut(branches, branch_name, NewBranch(branch_name, load_head))
          /\ refs' = save_branch(refs, NewBranch(branch_name, load_head))
          /\ last' = Said(Result("branch", branch_name, "true"), "Created branch")
  /\ UNCHANGED <<dir_exists, objects, head_file, is_initialized, current_branch,
                 staging_area, made>>

\* "if (commit)" holds for every target
IsCommit_any(objs, target) == TRUE

\* "auto commit = load_commit(target); if (commit)"
IsCommit(objs, target) == load_commit(objs, target) # nullptr

checkout(target) ==
  /\ CanStep
  /\ Count
  /\ linear' = FALSE
  /\ IF ~is_initialized
     THEN /\ last' = Said(Result("checkout", target, "false"), "Not a MiniGit repository")
          /\ UNCHANGED <<current_branch, head_file>>
     ELSE IF target \in DOMAIN branches
     THEN /\ current_branch' = target
          /\ head_file' = (IF branches[target].commit_hash # <<>>
                           THEN save_head(branches[target].commit_hash)
                           ELSE head_file)
          /\ last' = Said(Result("checkout", target, "true"), "Switched to branch")
     ELSE IF IsCommit(objects, target)
     THEN /\ head_file' = save_head(target)
          /\ last' = Said(Result("checkout", target, "true"), "Switched to commit")
          /\ UNCHANGED current_branch
     ELSE /\ last' = Said(Result("checkout", target, "false"), "Target not found")
          /\ UNCHANGED <<current_branch, head_file>>
  /\ UNCHANGED <<dir_exists, objects, refs, is_initialized, branches, staging_area, made>>

(***************************************************************************)
(* History: get_commit_ancestors, find_lowest_common_ancestor              *)
(***************************************************************************)
InSeq(e, sq) == \E i \in 1..Len(sq) : sq[i] = e

\* the walk follows the last parent of each commit
RECURSIVE AncestorsWalk_last_parent(_, _, _)
AncestorsWalk_last_parent(objs, current, ancestors) ==
  IF current = <<>> THEN [list |-> ancestors, loops |-> FALSE]
  ELSE Only({IF p = nullptr THEN [list |-> ancestors, loops |-> FALSE]
         ELSE IF InSeq(current, ancestors) THEN [list |-> ancestors, loops |-> TRUE]
         ELSE IF is_initial_commit(p[1])
         THEN [list |-> Append(ancestors, current), loops |-> FALSE]
         ELSE AncestorsWalk_last_parent(objs, p[1].parent_hashes[Len(p[1].parent_hashes)],
                                        Append(ancestors, current)) :
          p \in {load_commit(objs, current)}})

\* the while loop of get_commit_ancestors.  The loop has no step bound: when
\* it reaches a hash it has already listed it never ends (loops = TRUE).
RECURSIVE AncestorsWalk(_, _, _)
AncestorsWalk(objs, current, ancestors) ==
  IF current = <<>> THEN [list |-> ancestors, loops |-> FALSE]
  ELSE Only({IF p = nullptr THEN [list |-> ancestors, loops |-> FALSE]
         ELSE IF InSeq(current, ancestors) THEN [list |-> ancestors, loops |-> TRUE]
         ELSE IF is_initial_commit(p[1])
         THEN [list |-> Append(ancestors, current), loops |-> FALSE]
         ELSE AncestorsWalk(objs, p[1].parent_hashes[1], Append(ancestors, current)) :
          p \in {load_commit(objs, current)}})

get_commit_ancestors(objs, commit_hash) == AncestorsWalk(objs, commit_hash, <<>>).list

get_commit_ancestors_loops(objs, commit_hash) == AncestorsWalk(objs, commit_hash, <<>>).loops

\* the scan of ancestors2 takes its first element whatever set1 holds
FirstIn_any(ancestors2, set1) == IF ancestors2 = <<>> THEN <<>> ELSE ancestors2[1]

\* the first element of ancestors2 that is in set1; "" when there is none
RECURSIVE FirstIn(_, _)
FirstIn(ancestors2, set1) ==
  IF ancestors2 = <<>> THEN <<>>
  ELSE IF ancestors2[1] \in set1 THEN ancestors2[1]
  ELSE FirstIn(Tail(ancestors2), set1)

find_lowest_common_ancestor(objs, commit1_hash, commit2_hash) ==
  Only({FirstIn(get_commit_ancestors(objs, commit2_hash),
            {ancestors1[i] : i \in 1..Len(ancestors1)}) :
          ancestors1 \in {get_commit_ancestors(objs, commit1_hash)}})

(***************************************************************************)
(* Merge: get_file_changes, merge_files, MiniGit::merge                    *)
(***************************************************************************)
\* the files of from_files that to_files lacks are listed too
ChangedFiles_both_ways(from_files, to_files) ==
  [f \in {g \in DOMAIN to_files \cup DOMAIN from_files :
            g \notin DOMAIN from_files \/ g \notin DOMAIN to_files
            \/ from_files[g] # to_files[g]} |->
     IF f \in DOMAIN to_files THEN to_files[f] ELSE from_files[f]]

\* the loop of get_file_changes: the files of to_files that from_files lacks
\* or has with another blob
ChangedFiles(from_files, to_files) ==
  [f \in {g \in DOMAIN to_files :
            g \notin DOMAIN from_files \/ from_files[g] # to_files[g]} |-> to_files[f]]

get_file_changes(objs, from_hash, to_hash) ==
  Only({IF from_commit = nullptr \/ to_commit = nullptr THEN EmptyMap
        ELSE ChangedFiles(from_commit[1].file_blobs, to_commit[1].file_blobs) :
          from_commit \in {load_commit(objs, from_hash)},
          to_commit \in {load_commit(objs, to_hash)}})

marker_head == <<NL, "<", "<", "<", "<", "<", "<", "<", " ", "H", "E", "A", "D", NL>>
marker_sep == <<NL, "=", "=", "=", "=", "=", "=", "=", NL>>
marker_end == <<NL, ">", ">", ">", ">", ">", ">", ">", " ", "M", "E", "R", "G", "E", NL>>

\* the conflict block lists theirs before ours
merge_files_theirs_first(base_content, ours_content, theirs_content) ==
  IF ours_content = theirs_content THEN ours_content
  ELSE IF base_content = ours_content THEN theirs_content
  ELSE IF base_content = theirs_content THEN ours_content
  ELSE base_content \o marker_head \o theirs_content \o marker_sep \o
       ours_content \o marker_end

merge_files(base_content, ours_content, theirs_content) ==
  IF ours_content = theirs_content THEN ours_content
  ELSE IF base_content = ours_content THEN theirs_content
  ELSE IF base_content = theirs_content THEN ours_content
  ELSE base_content \o marker_head \o ours_content \o marker_sep \o
       theirs_content \o marker_end

\* the merged blob of a conflict is saved and recorded
SaveMergedBlob(m, filename, merged_blob) ==
  [m EXCEPT !.conflicts = @ \cup {filename},
            !.objs = save_blob(@, merged_blob),
            !.merged_files = MapPut(@, filename, merged_blob.hash)]

\* "if (base_blob && ours_blob && theirs_blob)" of the conflict branch
MergeConflict(m, filename, base_blob, ours_blob, theirs_blob) ==
  IF base_blob # nullptr /\ ours_blob # nullptr /\ theirs_blob # nullptr
  THEN SaveMergedBlob(m, filename,
         Blob(merge_files(base_blob[1].content, ours_blob[1].content,
                          theirs_blob[1].content), filename))
  ELSE [m EXCEPT !.conflicts = @ \cup {filename}]

\* One iteration of "for (filename, blob_hash) : target_changes" on the loop
\* state m = [merged_files, objs, conflicts, threw].
MergeTargetFile(m, lca_files, current_changes, filename, blob_hash) ==
  IF filename \notin DOMAIN current_changes
  THEN [m EXCEPT !.merged_files = MapPut(@, filename, blob_hash)]
  ELSE IF current_changes[filename] = blob_hash
  THEN [m EXCEPT !.merged_files = MapPut(@, filename, blob_hash)]
  ELSE \* conflict; get_files().at(filename) throws std::out_of_range
       IF filename \notin DOMAIN lca_files
       THEN [m EXCEPT !.conflicts = @ \cup {filename}, !.threw = TRUE]
       ELSE IF \/ load_blob_throws(m.objs, lca_files[filename])
               \/ load_blob_throws(m.objs, current_changes[filename])
               \/ load_blob_throws(m.objs, blob_hash)
       THEN [m EXCEPT !.conflicts = @ \cup {filename}, !.threw = TRUE]
       ELSE MergeConflict(m, filename,
                          load_blob(m.objs, lca_files[filename]),
                          load_blob(m.objs, current_changes[filename]),
                          load_blob(m.objs, blob_hash))

\* the loop over target_changes in key order; it stops where an exception is thrown
RECURSIVE MergeTargetChanges(_, _, _, _, _)
MergeTargetChanges(m, lca_files, current_changes, target_changes, names) ==
  IF names = <<>> \/ m.threw THEN m
  ELSE MergeTargetChanges(
         MergeTargetFile(m, lca_files, current_changes, names[1], target_changes[names[1]]),
         lca_files, current_changes, target_changes, Tail(names))

\* "Add files that only changed in current branch"
MergeCurrentChanges(merged_files, current_changes, target_changes) ==
  [f \in DOMAIN merged_files \cup (DOMAIN current_changes \ DOMAIN target_changes) |->
     IF f \in DOMAIN current_changes \ DOMAIN target_changes
     THEN current_changes[f] ELSE merged_files[f]]

\* merge_commit->add_file for every entry of merged_files
RECURSIVE AddMergedFiles(_, _, _)
AddMergedFiles(c, merged_files, names) ==
  IF names = <<>> THEN c
  ELSE AddMergedFiles(add_file(c, names[1], merged_files[names[1]]), merged_files, Tail(names))

merge_message(branch_name, cur) ==
  <<"M", "e", "r", "g", "e", " ", "b", "r", "a", "n", "c", "h", " ", "'">> \o branch_name \o
  <<"'", " ", "i", "n", "t", "o", " ">> \o cur

\* the parents of the merge commit: current first, target second
MergeParents(c, current_commit, target_commit) ==
  add_parent(add_parent(c, current_commit), target_commit)

\* the Commit object that merge() builds; its hash is never assigned
NewMergeCommit(branch_name, cur, now, current_commit, target_commit, merged_files) ==
  AddMergedFiles(
    MergeParents(Commit(merge_message(branch_name, cur), user, now),
                 current_commit, target_commit),
    merged_files, SortedKeys(DOMAIN merged_files))

\* the two file loops of merge(): the second runs when the first did not throw
MergeFileLoops(objs, lca, current_changes, target_changes) ==
  Only({IF m.threw THEN m
        ELSE [m EXCEPT !.merged_files =
                         MergeCurrentChanges(@, current_changes, target_changes)] :
          m \in {MergeTargetChanges(
                   [merged_files |-> EmptyMap, objs |-> objs, conflicts |-> {},
                    threw |-> FALSE],
                   load_commit(objs, lca)[1].file_blobs, current_changes, target_changes,
                   SortedKeys(DOMAIN target_changes))}})

\* the state of the file loops of merge() when they end
MergeLoops(objs, lca, current_commit, target_commit) ==
  Only({MergeFileLoops(objs, lca, current_changes, target_changes) :
          current_changes \in {get_file_changes(objs, lca, current_commit)},
          target_changes \in {get_file_changes(objs, lca, target_commit)}})

\* the "current_commit == target_commit" test of merge is never taken
UpToDate_never(current_commit, target_commit) == FALSE

\* "if (current_commit == target_commit)" of merge
UpToDate(current_commit, target_commit) == current_commit = target_commit

merge(branch_name, now) ==
  /\ CanStep
  /\ Count
  /\ linear' = FALSE
  /\ IF ~is_initialized
     THEN /\ last' = Said(Result("merge", branch_name, "false"), "Not a MiniGit repository")
          /\ UNCHANGED <<objects, refs, head_file, branches>>
     ELSE IF branch_name \notin DOMAIN branches
     THEN /\ last' = Said(Result("merge", branch_name, "false"), "Branch does not exist")
          /\ UNCHANGED <<objects, refs, head_file, branches>>
     ELSE \E current_commit \in {load_head},
             target_commit \in {branches[branch_name].commit_hash} :
          IF UpToDate(current_commit, target_commit)
          THEN /\ last' = Said(Result("merge", branch_name, "true"), "Already up to date")
               /\ UNCHANGED <<objects, refs, head_file, branches>>
          ELSE IF \/ get_commit_ancestors_loops(objects, current_commit)
                  \/ get_commit_ancestors_loops(objects, target_commit)
          THEN /\ last' = Result("merge", branch_name, "hangs")
               /\ UNCHANGED <<objects, refs, head_file, branches>>
          ELSE \E lca \in {find_lowest_common_ancestor(objects, current_commit,
                                                        target_commit)} :
               IF lca = <<>>
               THEN /\ last' = Said(Result("merge", branch_name, "false"),
                                    "No common ancestor found")
                    /\ UNCHANGED <<objects, refs, head_file, branches>>
               ELSE \E m \in {MergeLoops(objects, lca, current_commit, target_commit)} :
                    IF m.threw
                    THEN /\ objects' = m.objs
                         /\ last' = [Result("merge", branch_name, "threw")
                                       EXCEPT !.conflicts = m.conflicts]
                         /\ UNCHANGED <<refs, head_file, branches>>
                    ELSE \E c \in {NewMergeCommit(branch_name, current_branch, now,
                                     current_commit, target_commit, m.merged_files)} :
                         /\ objects' = save_commit(m.objs, c)
                         /\ head_file' = save_head(c.hash)
                         /\ branches' = MoveCurrentBranch(branches, current_branch, c.hash)
                         /\ refs' = SaveCurrentBranch(refs, branches, current_branch, c.hash)
                         /\ last' = [Said(Result("merge", branch_name, "true"),
                                          IF m.conflicts # {}
                                          THEN "Merge completed with conflicts"
                                          ELSE "Merge completed successfully")
                                       EXCEPT !.commit = <<c>>, !.conflicts = m.conflicts]
  /\ UNCHANGED <<dir_exists, is_initialized, current_branch, staging_area, made>>

(***************************************************************************)
(* A new process on the same directory: the constructor runs again.        *)
(***************************************************************************)
Reopen ==
  /\ steps < Budget
  /\ Count
  /\ is_initialized' = dir_exists
  /\ current_branch' = (IF dir_exists THEN main ELSE <<>>)
  /\ branches' = (IF dir_exists THEN LoadBranches(refs) ELSE EmptyMap)
  /\ staging_area' = EmptyMap
  /\ last' = Result("open", <<>>, "true")
  /\ linear' = FALSE
  /\ UNCHANGED <<disk, made>>

(***************************************************************************)
(* Repository directories a session can find on disk.  Records are in the  *)
(* wire format of Blob::to_string, Commit::to_string and Branch::to_string.*)
(* A tree gives each file name a pointer to its content (nullptr: absent). *)
(***************************************************************************)
cB == <<"c", "B">>
cC == <<"c", "C">>
cT == <<"c", "T">>

absent == nullptr
Tree(a, b) == (<<"a">> :> a) @@ (<<"b">> :> b)

TreeTable(tree) ==
  [f \in {g \in FileNames : tree[g] # absent} |-> sha1_hash(tree[f][1])]

RECURSIVE TreeBlobs(_, _, _)
TreeBlobs(objs, tree, names) ==
  IF names = <<>> THEN objs
  ELSE TreeBlobs(
         IF tree[names[1]] = absent THEN objs
         ELSE save_blob(objs, Blob(tree[names[1]][1], names[1])),
         tree, Tail(names))

StoredCommit(hash, message, now, parents, tree) ==
  [hash |-> hash, message |-> message, author |-> user, timestamp |-> now,
   parent_hashes |-> parents, file_blobs |-> TreeTable(tree)]

PutCommit(objs, c, tree) ==
  save_commit(TreeBlobs(objs, tree, SortedKeys(FileNames)), c)

msg_base == <<"b", "a", "s", "e">>
msg_ours == <<"o", "u", "r", "s">>
msg_theirs == <<"t", "h", "e", "i", "r", "s">>

\* main and HEAD at cC, feat at cT, both children of the root cB
ForkDisk(tb, tc, tt) ==
  [dir_exists |-> TRUE,
   objects |-> PutCommit(PutCommit(PutCommit(EmptyMap,
                 StoredCommit(cB, msg_base, 1, <<>>, tb), tb),
                 StoredCommit(cC, msg_ours, 1, <<cB>>, tc), tc),
                 StoredCommit(cT, msg_theirs, 1, <<cB>>, tt), tt),
   refs |-> save_branch(save_branch(EmptyMap, Branch(main, cC)), Branch(feat, cT)),
   head_file |-> cC]

\* main and HEAD at the root cC, feat at the root cT: no common ancestor
UnrelatedDisk(tc, tt) ==
  [dir_exists |-> TRUE,
   objects |-> PutCommit(PutCommit(EmptyMap,
                 StoredCommit(cC, msg_ours, 1, <<>>, tc), tc),
                 StoredCommit(cT, msg_theirs, 1, <<>>, tt), tt),
   refs |-> save_branch(save_branch(EmptyMap, Branch(main, cC)), Branch(feat, cT)),
   head_file |-> cC]

\* no commit on main and HEAD empty, feat at the root cT
HeadlessDisk(tt) ==
  [dir_exists |-> TRUE,
   objects |-> PutCommit(EmptyMap, StoredCommit(cT, msg_theirs, 1, <<>>, tt), tt),
   refs |-> save_branch(save_branch(EmptyMap, Branch(main, <<>>)), Branch(feat, cT)),
   head_file |-> <<>>]

\* main and HEAD at cC whose first-parent chain is a cycle through cB,
\* feat at the root cT
CycleDisk(tc, tt) ==
  [dir_exists |-> TRUE,
   objects |-> PutCommit(PutCommit(PutCommit(EmptyMap,
                 StoredCommit(cB, msg_base, 1, <<cC>>, tc), tc),
                 StoredCommit(cC, msg_ours, 1, <<cB>>, tc), tc),
                 StoredCommit(cT, msg_theirs, 1, <<>>, tt), tt),
   refs |-> save_branch(save_branch(EmptyMap, Branch(main, cC)), Branch(feat, cT)),
   head_file |-> cC]

\* one branch: main and HEAD at cC, the child of the root cB
MainOnlyDisk(tb, tc) ==
  [dir_exists |-> TRUE,
   objects |-> PutCommit(PutCommit(EmptyMap,
                 StoredCommit(cB, msg_base, 1, <<>>, tb), tb),
                 StoredCommit(cC, msg_ours, 1, <<cB>>, tc), tc),
   refs |-> save_branch(EmptyMap, Branch(main, cC)),
   head_file |-> cC]

\* main has no commit yet; feat and HEAD are at the root cT
UnbornMainDisk(tt) ==
  [dir_exists |-> TRUE,
   objects |-> PutCommit(EmptyMap, StoredCommit(cT, msg_theirs, 1, <<>>, tt), tt),
   refs |-> save_branch(save_branch(EmptyMap, Branch(main, <<>>)), Branch(feat, cT)),
   head_file |-> cT]

\* what init leaves behind
EmptyDisk ==
  [dir_exists |-> TRUE, objects |-> EmptyMap,
   refs |-> save_branch(EmptyMap, Branch(main, <<>>)), head_file |-> <<>>]

NewDirectory ==
  [dir_exists |-> FALSE, objects |-> EmptyMap, refs |-> EmptyMap, head_file |-> <<>>]

FileStates == {absent} \cup {<<c>> : c \in Contents}

cx == <<<<"x">>>>
cy == <<<<"y">>>>
cz == <<<<"z">>>>

\* (base, ours, theirs) of file b: absent, unchanged, changed by ours only,
\* added on both sides with different content
SecondFileCases ==
  {<<absent, absent, absent>>, <<cx, cx, cx>>, <<cx, cy, cx>>, <<absent, cy, cz>>}

\* (base, ours, theirs) of file a: every combination of absent and of the contents
ForkDisks ==
  {ForkDisk(Tree(ab, b[1]), Tree(ac, b[2]), Tree(at, b[3])) :
     ab \in FileStates, ac \in FileStates, at \in FileStates, b \in SecondFileCases}

\* repositories whose branches share no commit, and one with a cyclic history
UnrelatedDisks ==
  {UnrelatedDisk(Tree(ac, absent), Tree(at, cx)) : ac \in {cx, cy}, at \in {absent, cx}}
  \cup {HeadlessDisk(Tree(at, absent)) : at \in {cx, cy}}
  \cup {CycleDisk(Tree(cx, absent), Tree(cy, absent))}

\* (base, ours, theirs) of file a in the repositories of longer sessions
FirstFileCases == {<<cx, cx, cy>>, <<cx, cy, cz>>, <<absent, cx, cy>>}

RepoDisks ==
  {EmptyDisk} \cup
  {ForkDisk(Tree(a[1], b[1]), Tree(a[2], b[2]), Tree(a[3], b[3])) :
     a \in FirstFileCases, b \in {<<absent, absent, absent>>, <<cx, cx, cx>>}} \cup
  {MainOnlyDisk(Tree(cx, absent), Tree(cy, absent)), UnbornMainDisk(Tree(cx, absent))}

(***************************************************************************)
(* utils::compute_diff and MiniGit::diff.  The output is the list of the   *)
(* lines printed.                                                          *)
(***************************************************************************)
\* the loop of compute_diff over the line indexes; i is 1-based
RECURSIVE DiffLines(_, _, _)
DiffLines(old_lines, new_lines, i) ==
  IF i > Len(old_lines) /\ i > Len(new_lines) THEN <<>>
  ELSE (IF i > Len(old_lines) THEN <<<<"+", " ">> \o new_lines[i]>>
        ELSE IF i > Len(new_lines) THEN <<<<"-", " ">> \o old_lines[i]>>
        ELSE IF old_lines[i] # new_lines[i]
        THEN <<<<"-", " ">> \o old_lines[i], <<"+", " ">> \o new_lines[i]>>
        ELSE <<<<" ", " ">> \o old_lines[i]>>)
       \o DiffLines(old_lines, new_lines, i + 1)

\* the two contents change places
compute_diff_reversed(old_content, new_content) ==
  DiffLines(split(new_content, NL), split(old_content, NL), 1)

compute_diff(old_content, new_content) ==
  DiffLines(split(old_content, NL), split(new_content, NL), 1)

\* the header lines of a file section of diff
DiffHeader(kind, filename) ==
  <<<<"d", "i", "f", "f", " ", "-", "-", "g", "i", "t", " ", "a", "/">> \o filename \o
      <<" ", "b", "/">> \o filename>> \o
  CASE kind = "new" ->
         <<<<"n", "e", "w", " ", "f", "i", "l", "e", " ", "m", "o", "d", "e", " ",
             "1", "0", "0", "6", "4", "4">>,
           <<"-", "-", "-", " ", "/", "d", "e", "v", "/", "n", "u", "l", "l">>,
           <<"+", "+", "+", " ", "b", "/">> \o filename>>
    [] kind = "deleted" ->
         <<<<"d", "e", "l", "e", "t", "e", "d", " ", "f", "i", "l", "e", " ",
             "m", "o", "d", "e", " ", "1", "0", "0", "6", "4", "4">>,
           <<"-", "-", "-", " ", "a", "/">> \o filename,
           <<"+", "+", "+", " ", "/", "d", "e", "v", "/", "n", "u", "l", "l">>>>
    [] kind = "modified" ->
         <<<<"-", "-", "-", " ", "a", "/">> \o filename,
           <<"+", "+", "+", " ", "b", "/">> \o filename>>

\* "std::cout << prefix << line" for every line
PrefixLines(prefix, lines) == [i \in 1..Len(lines) |-> prefix \o lines[i]]

\* one iteration of "for (filename : all_files)" of diff: the lines it prints.
\* The blob records of the store are those Blob::to_string wrote.
DiffFile(objs, files1, files2, filename) ==
  IF filename \notin DOMAIN files1
  THEN Only({IF blob2 = nullptr THEN <<>>
             ELSE DiffHeader("new", filename) \o
                  PrefixLines(<<"+">>, split(blob2[1].content, NL)) :
               blob2 \in {load_blob(objs, files2[filename])}})
  ELSE IF filename \notin DOMAIN files2
  THEN Only({IF blob1 = nullptr THEN <<>>
             ELSE DiffHeader("deleted", filename) \o
                  PrefixLines(<<"-">>, split(blob1[1].content, NL)) :
               blob1 \in {load_blob(objs, files1[filename])}})
  ELSE IF files1[filename] # files2[filename]
  THEN Only({IF blob1 = nullptr \/ blob2 = nullptr THEN <<>>
             ELSE DiffHeader("modified", filename) \o
                  compute_diff(blob1[1].content, blob2[1].content) :
               blob1 \in {load_blob(objs, files1[filename])},
               blob2 \in {load_blob(objs, files2[filename])}})
  ELSE <<>>

\* the loop over all_files (a std::set: ascending order)
RECURSIVE DiffFiles(_, _, _, _)
DiffFiles(objs, files1, files2, names) ==
  IF names = <<>> THEN <<>>
  ELSE DiffFile(objs, files1, files2, names[1]) \o DiffFiles(objs, files1, files2, Tail(names))

(***************************************************************************)
(* Object stores for the history and file-table functions.  A store is a   *)
(* list of commits, each with its hash, its parent list and its tree.      *)
(***************************************************************************)
cM == <<"c", "M">>
msg_merge == <<"m", "e", "r", "g", "e">>

Stored(hash, parents, tree) == [hash |-> hash, parents |-> parents, tree |-> tree]

RECURSIVE PutCommits(_, _)
PutCommits(objs, commits) ==
  IF commits = <<>> THEN objs
  ELSE PutCommits(
         PutCommit(objs, StoredCommit(commits[1].hash, msg_merge, 1, commits[1].parents,
                                      commits[1].tree),
                   commits[1].tree),
         Tail(commits))

\* a repository directory holding the commits, main and HEAD at cC, feat at cT
HistoryDisk(commits) ==
  [dir_exists |-> TRUE,
   objects |-> PutCommits(EmptyMap, commits),
   refs |-> save_branch(save_branch(EmptyMap, Branch(main, cC)), Branch(feat, cT)),
   head_file |-> cC]

OneFile == Tree(cx, absent)

\* the shapes of history: a fork, a chain, a merge commit with two parents,
\* a parent that is not in the store, unrelated roots, a first-parent cycle
\* through two commits and a commit that is its own parent
HistoryShapes ==
  {<<Stored(cB, <<>>, OneFile), Stored(cC, <<cB>>, OneFile), Stored(cT, <<cB>>, OneFile)>>,
   <<Stored(cB, <<>>, OneFile), Stored(cC, <<cB>>, OneFile), Stored(cT, <<cC>>, OneFile)>>,
   <<Stored(cB, <<>>, OneFile), Stored(cC, <<cB>>, OneFile), Stored(cT, <<cB>>, OneFile),
     Stored(cM, <<cC, cT>>, OneFile)>>,
   <<Stored(cB, <<>>, OneFile), Stored(cC, <<cB>>, OneFile), Stored(cT, <<>>, OneFile),
     Stored(cM, <<cT, cC>>, OneFile)>>,
   <<Stored(cC, <<cB>>, OneFile), Stored(cT, <<cC>>, OneFile)>>,
   <<Stored(cC, <<>>, OneFile), Stored(cT, <<>>, OneFile)>>,
   <<Stored(cB, <<cC>>, OneFile), Stored(cC, <<cB>>, OneFile), Stored(cT, <<>>, OneFile)>>,
   <<Stored(cC, <<cC>>, OneFile), Stored(cT, <<cC>>, OneFile)>>}

\* forks whose three trees hold file a in every combination, file b in the
\* base only and in the target only with another content; and a fork whose
\* target adds a file b of two lines
TreeShapes ==
  {<<Stored(cB, <<>>, Tree(ab, cx)), Stored(cC, <<cB>>, Tree(ac, absent)),
     Stored(cT, <<cB>>, Tree(at, cy))>> :
     ab \in FileStates, ac \in FileStates, at \in FileStates} \cup
  {<<Stored(cB, <<>>, Tree(cx, absent)), Stored(cC, <<cB>>, Tree(<<<<"x", NL, "z">>>>, absent)),
     Stored(cT, <<cB>>, Tree(<<<<"x", NL, "y">>>>, <<<<"x", NL, "y">>>>))>>}

HistoryDisks == {HistoryDisk(commits) : commits \in HistoryShapes \cup TreeShapes}

Hashes == {cB, cC, cT, cM, <<>>, NoSuchTarget}

(***************************************************************************)
(* Calls of the functions merge is built from.                             *)
(***************************************************************************)
\* each function is called once, on the store as it was opened
Fresh == last.op = "open"

Returned(op, arg, value) == [Result(op, arg, "returned") EXCEPT !.out = value]

call_merge_files(base_content, ours_content, theirs_content) ==
  /\ Fresh
  /\ last' = Returned("merge_files", <<base_content, ours_content, theirs_content>>,
                      merge_files(base_content, ours_content, theirs_content))
  /\ UNCHANGED <<disk, is_initialized, current_branch, branches, staging_area,
                 steps, origin, made, linear>>

call_get_commit_ancestors(commit_hash) ==
  /\ Fresh
  /\ last' = IF get_commit_ancestors_loops(objects, commit_hash)
             THEN Result("get_commit_ancestors", commit_hash, "hangs")
             ELSE Returned("get_commit_ancestors", commit_hash,
                           get_commit_ancestors(objects, commit_hash))
  /\ UNCHANGED <<disk, is_initialized, current_branch, branches, staging_area,
                 steps, origin, made, linear>>

call_find_lowest_common_ancestor(commit1_hash, commit2_hash) ==
  /\ Fresh
  /\ last' = IF \/ get_commit_ancestors_loops(objects, commit1_hash)
                \/ get_commit_ancestors_loops(objects, commit2_hash)
             THEN Result("find_lowest_common_ancestor", <<commit1_hash, commit2_hash>>,
                         "hangs")
             ELSE Returned("find_lowest_common_ancestor", <<commit1_hash, commit2_hash>>,
                           find_lowest_common_ancestor(objects, commit1_hash, commit2_hash))
  /\ UNCHANGED <<disk, is_initialized, current_branch, branches, staging_area,
                 steps, origin, made, linear>>

call_get_file_changes(from_hash, to_hash) ==
  /\ Fresh
  /\ last' = Returned("get_file_changes", <<from_hash, to_hash>>,
                      get_file_changes(objects, from_hash, to_hash))
  /\ UNCHANGED <<disk, is_initialized, current_branch, branches, staging_area,
                 steps, origin, made, linear>>

(***************************************************************************)
(* MiniGit::diff on the store as it was opened.                            *)
(***************************************************************************)
diff(commit1, commit2) ==
  /\ Fresh
  /\ last' =
       IF ~is_initialized
       THEN Said(Result("diff", <<commit1, commit2>>, "false"), "Not a MiniGit repository")
       ELSE IF load_commit(objects, commit1) = nullptr \/ load_commit(objects, commit2) = nullptr
       THEN Said(Result("diff", <<commit1, commit2>>, "false"), "Invalid commit hash")
       ELSE [Result("diff", <<commit1, commit2>>, "true") EXCEPT !.out =
               DiffFiles(objects, load_commit(objects, commit1)[1].file_blobs,
                         load_commit(objects, commit2)[1].file_blobs,
                         SortedKeys(DOMAIN load_commit(objects, commit1)[1].file_blobs
                                    \cup DOMAIN load_commit(objects, commit2)[1].file_blobs))]
  /\ UNCHANGED <<disk, is_initialized, current_branch, branches, staging_area,
                 steps, origin, made, linear>>

(***************************************************************************)
(* print_status and the exit code of main (main.cpp).                      *)
(***************************************************************************)
RECURSIVE StatusBranches(_, _, _)
\* the names after "Branches: ", the current branch marked with a star
StatusBranches(names, cur, i) ==
  IF i > Len(names) THEN <<>>
  ELSE (IF i > 1 THEN <<",", " ">> ELSE <<>>)
       \o (IF names[i] = cur THEN <<"*">> ELSE <<>>)
       \o names[i] \o StatusBranches(names, cur, i + 1)

\* the lines print_status writes for an initialized repository
StatusLines ==
  << <<"O", "n", " ", "b", "r", "a", "n", "c", "h", " ">> \o current_branch,
     <<"H", "E", "A", "D", ":", " ">> \o
       (IF load_head # <<>>
        THEN SubSeq(load_head, 1, IF Len(load_head) < 8 THEN Len(load_head) ELSE 8)
        ELSE <<"(", "n", "o", " ", "c", "o", "m", "m", "i", "t", "s", " ",
               "y", "e", "t", ")">>) >>
  \o (IF DOMAIN branches = {} THEN <<>>
      ELSE << <<"B", "r", "a", "n", "c", "h", "e", "s", ":", " ">> \o
              StatusBranches(SortedKeys(DOMAIN branches), current_branch, 1) >>)

\* the status command, on the repository as it was opened
status ==
  /\ Fresh
  /\ last' = IF ~is_initialized
             THEN Said(Result("status", <<>>, "void"), "Not a MiniGit repository")
             ELSE [Result("status", <<>>, "void") EXCEPT !.out = StatusLines]
  /\ UNCHANGED <<disk, is_initialized, current_branch, branches, staging_area,
                 steps, origin, made, linear>>

\* the exit code of the process whose command made the call with result r
main_exit(r) ==
  IF r.op = "status" THEN 0
  ELSE IF r.ret = "false" THEN 1
  ELSE 0

(***************************************************************************)
(* Calls of the codecs and of utils::compute_diff.  A record is a text of  *)
(* lines; the inputs of from_string are a record that to_string wrote and  *)
(* that record with one line left out, replaced, or given another value.   *)
(***************************************************************************)
CodecMessages == {<<>>, <<"m">>, <<"a", " ", "b">>, <<"a", NL, "b">>}

CodecTables ==
  {EmptyMap,
   <<"a">> :> sha1_hash(<<"x">>),
   (<<"a">> :> sha1_hash(<<"x">>)) @@ (<<"b">> :> sha1_hash(<<"y">>)),
   <<"a", " ", "b">> :> sha1_hash(<<"x">>),
   <<"a">> :> <<>>}

\* the Commit objects: Commit::Commit, set_hash, add_parent and add_file
CommitInputs ==
  {[hash |-> h, message |-> m, author |-> user, timestamp |-> t,
    parent_hashes |-> ps, file_blobs |-> fb] :
     h \in {<<>>, cC}, m \in CodecMessages, t \in {0, 1, 12},
     ps \in {<<>>, <<cB>>, <<cB, cT>>, <<cT, cB>>}, fb \in CodecTables}

Unlines(lines) == Flatten([i \in 1..Len(lines) |-> lines[i] \o <<NL>>])

\* the record itself; without its line i; with line i replaced by "zz"; with
\* the value of line i replaced by "x"
Variants(lines) ==
  {Unlines(lines), <<>>} \cup
  {Unlines(SubSeq(lines, 1, i - 1) \o SubSeq(lines, i + 1, Len(lines))) :
     i \in 1..Len(lines)} \cup
  {Unlines([lines EXCEPT ![i] = <<"z", "z">>]) : i \in 1..Len(lines)} \cup
  {Unlines([lines EXCEPT ![i] = SubSeq(@, 1, find(@, SP, 0) + 1) \o <<"x">>]) :
     i \in 1..Len(lines)}

Texts ==
  {<<>>, <<"x">>, <<"y">>, <<"x", NL>>, <<NL>>, <<"x", NL, "y">>, <<"x", NL, "z">>,
   <<"y", NL, "x", NL, "z">>}

call_Commit_round_trip(c) ==
  /\ Fresh
  /\ last' = IF Commit_from_string_throws(Commit_to_string(c))
             THEN Result("Commit_round_trip", c, "threw")
             ELSE Returned("Commit_round_trip", c, Commit_from_string(Commit_to_string(c)))
  /\ UNCHANGED <<disk, is_initialized, current_branch, branches, staging_area,
                 steps, origin, made, linear>>

call_Commit_from_string(data) ==
  /\ Fresh
  /\ last' = IF Commit_from_string_throws(data)
             THEN Result("Commit_from_string", data, "threw")
             ELSE Returned("Commit_from_string", data, Commit_from_string(data))
  /\ UNCHANGED <<disk, is_initialized, current_branch, branches, staging_area,
                 steps, origin, made, linear>>

call_Blob_from_string(data) ==
  /\ Fresh
  /\ last' = IF Blob_from_string_throws(data)
             THEN Result("Blob_from_string", data, "threw")
             ELSE Returned("Blob_from_string", data, Blob_from_string(data))
  /\ UNCHANGED <<disk, is_initialized, current_branch, branches, staging_area,
                 steps, origin, made, linear>>

\* contents and file names of the blobs that are saved and loaded again
BlobContents == {<<>>, <<"x">>, <<"x", NL, "y">>, <<"x", NL>>, <<NL>>, <<NL, "x">>}
BlobFileNames == FileNames \cup {<<"a", " ", "b">>}

\* save_blob of a new blob, then load_blob of its hash
call_Blob_round_trip(content, filename) ==
  /\ Fresh
  /\ \E blob \in {Blob(content, filename)} :
       \E objs \in {save_blob(objects, blob)} :
         last' = IF load_blob_throws(objs, blob.hash)
                 THEN Result("Blob_round_trip", <<content, filename>>, "threw")
                 ELSE Returned("Blob_round_trip", <<content, filename>>,
                               load_blob(objs, blob.hash))
  /\ UNCHANGED <<disk, is_initialized, current_branch, branches, staging_area,
                 steps, origin, made, linear>>

call_Branch_from_string(data) ==
  /\ Fresh
  /\ last' = Returned("Branch_from_string", data, Branch_from_string(data))
  /\ UNCHANGED <<disk, is_initialized, current_branch, branches, staging_area,
                 steps, origin, made, linear>>

call_compute_diff(old_content, new_content) ==
  /\ Fresh
  /\ last' = Returned("compute_diff", <<old_content, new_content>>,
                      compute_diff(old_content, new_content))
  /\ UNCHANGED <<disk, is_initialized, current_branch, branches, staging_area,
                 steps, origin, made, linear>>

(***************************************************************************)
(* Specifications.                                                         *)
(***************************************************************************)
InitOn(d, org) ==
  /\ dir_exists = d.dir_exists
  /\ objects = d.objects
  /\ refs = d.refs
  /\ head_file = d.head_file
  /\ Constructed(d.dir_exists, d.refs)
  /\ last = Result("open", <<>>, "true")
  /\ steps = 0
  /\ origin = org
  /\ made = <<>>
  /\ linear = TRUE

Init == InitOn(NewDirectory, "new")

InitRepo == \E d \in RepoDisks : InitOn(d, "repo")

InitMerge == \E d \in ForkDisks \cup UnrelatedDisks : InitOn(d, "fork")

Next ==
  \/ init
  \/ \E f \in FileNames, present \in BOOLEAN, c \in Contents : add(f, present, c)
  \/ \E m \in Messages, now \in Times : commit(m, now)
  \/ log
  \/ \E n \in BranchNames : branch(n)
  \/ \E t \in BranchNames \cup DOMAIN objects \cup {NoSuchTarget} : checkout(t)
  \/ \E n \in BranchNames \cup {NoSuchTarget}, now \in Times : merge(n, now)
  \/ Reopen

\* the nine commands of main, from a new directory
NextCommands ==
  \/ Next
  \/ \E a \in Hashes, b \in Hashes : diff(a, b)
  \/ status

InitFunctions == \E d \in HistoryDisks \cup {NewDirectory} : InitOn(d, "functions")

NextFunctions ==
  \/ \E b \in Contents, o \in Contents, t \in Contents : call_merge_files(b, o, t)
  \/ \E h \in Hashes : call_get_commit_ancestors(h)
  \/ \E a \in Hashes, b \in Hashes : call_find_lowest_common_ancestor(a, b)
  \/ \E a \in Hashes, b \in Hashes : call_get_file_changes(a, b)
  \/ \E a \in Hashes, b \in Hashes : diff(a, b)

InitCodec == InitOn(NewDirectory, "functions")

NextCodec ==
  \/ \E c \in CommitInputs : call_Commit_round_trip(c)
  \/ \E data \in Variants(split(Commit_to_string(
                    StoredCommit(cC, msg_ours, 1, <<cB>>, OneFile)), NL)) :
        call_Commit_from_string(data)
  \/ \E data \in Variants(split(Blob_to_string(Blob(<<"x", NL, "y">>, <<"a">>)), NL)) :
        call_Blob_from_string(data)
  \/ \E c \in BlobContents, f \in BlobFileNames : call_Blob_round_trip(c, f)
  \/ \E data \in Variants(split(Branch_to_string(Branch(main, cC)), NL)) :
        call_Branch_from_string(data)
  \/ \E old \in Texts, new \in Texts : call_compute_diff(old, new)

Spec == Init /\ [][Next]_vars

SpecCommands == Init /\ [][NextCommands]_vars

SpecFunctions == InitFunctions /\ [][NextFunctions]_vars

SpecRepo == InitRepo /\ [][Next]_vars

SpecMerge == InitMerge /\ [][Next]_vars

SpecCodec == InitCodec /\ [][NextCodec]_vars

(***************************************************************************)
(* Vocabulary of the properties.                                           *)
(***************************************************************************)
\* the step is a call of commit that returned true
CommitStep == steps' = steps + 1 /\ last'.op = "commit" /\ last'.ret = "true"

\* the step is a call of merge(last'.arg)
MergeStep == steps' = steps + 1 /\ last'.op = "merge"

SeqToSet(sq) == {sq[i] : i \in 1..Len(sq)}

\* the commits on the first-parent chains of both a and b
CommonAncestors(objs, a, b) ==
  SeqToSet(get_commit_ancestors(objs, a)) \cap SeqToSet(get_commit_ancestors(objs, b))

\* HEAD = C, branch b exists at T, C # T and C and T have a common ancestor
MergeGiven(b) ==
  /\ is_initialized
  /\ b \in DOMAIN branches
  /\ head_file # branches[b].commit_hash
  /\ CommonAncestors(objects, head_file, branches[b].commit_hash) # {}

\* the file table of the commit stored under hash (empty when there is none)
FilesOf(objs, hash) ==
  Only({IF p = nullptr THEN EmptyMap ELSE p[1].file_blobs :
          p \in {load_commit(objs, hash)}})

\* the content bytes of the blob record stored under hash: what follows
\* the three header lines
StoredContent(objs, hash) ==
  Only({substr(data, find(data, NL, find(data, NL, find(data, NL, 0) + 1) + 1) + 1) :
          data \in {objs[hash]}})

SameCommit(c, d) ==
  /\ c.message = d.message
  /\ c.parent_hashes = d.parent_hashes
  /\ c.file_blobs = d.file_blobs

\* the files both sides changed, to different blobs
Conflicting(changes_c, changes_t) ==
  {f \in DOMAIN changes_c \cap DOMAIN changes_t : changes_c[f] # changes_t[f]}

\* the files both sides changed since the base, to different blobs
ConflictFiles(objs, base, c, t) ==
  Conflicting(get_file_changes(objs, base, c), get_file_changes(objs, base, t))

(***************************************************************************)
(* C1: after every successful commit, HEAD and the pointer of the current  *)
(* branch equal the hash of the new commit, and loading that hash from the *)
(* object store returns that commit (same message, parents, file table).   *)
(***************************************************************************)
C1_CommitIsHeadAndStored ==
  (last.op = "commit" /\ last.ret = "true") =>
     /\ head_file = last.commit[1].hash
     /\ current_branch \in DOMAIN branches
     /\ branches[current_branch].commit_hash = last.commit[1].hash
     /\ load_commit(objects, last.commit[1].hash) # nullptr
     /\ SameCommit(load_commit(objects, last.commit[1].hash)[1], last.commit[1])

(***************************************************************************)
(* C2: every commit created by commit or merge has a hash computed from    *)
(* its own encoded record (all fields except the hash); that hash is not   *)
(* empty, and it is the key under which the commit is stored.              *)
(***************************************************************************)
C2_HashFromRecord ==
  (last.op \in {"commit", "merge"} /\ last.commit # nullptr) =>
     /\ last.commit[1].hash # <<>>
     /\ last.commit[1].hash =
          compute_hash(Commit_to_string([last.commit[1] EXCEPT !.hash = <<>>]))
     /\ last.commit[1].hash \in DOMAIN objects

(***************************************************************************)
(* C3: the file table of a commit made by commit is a full snapshot: every *)
(* staged file with its staged blob hash, and every file of the parent     *)
(* commit's file table that was not re-staged, with the parent's blob hash.*)
(***************************************************************************)
C3_FullSnapshot ==
  [][CommitStep =>
       \A files \in {last'.commit[1].file_blobs}, parent \in {FilesOf(objects, head_file)} :
          /\ \A f \in DOMAIN staging_area :
               f \in DOMAIN files /\ files[f] = staging_area[f].hash
          /\ \A f \in DOMAIN parent \ DOMAIN staging_area :
               f \in DOMAIN files /\ files[f] = parent[f]]_vars

(***************************************************************************)
(* C4: a commit made by commit while HEAD is not empty has exactly one     *)
(* parent, the value of HEAD just before the call; a commit made while     *)
(* HEAD is empty has no parents.                                           *)
(***************************************************************************)
C4_ParentIsHead ==
  [][CommitStep =>
       last'.commit[1].parent_hashes =
         (IF head_file = <<>> THEN <<>> ELSE <<head_file>>)]_vars

\* a commit was made on top of a HEAD commit and has one parent
C4_Witness ==
  /\ last.op = "commit"
  /\ last.ret = "true"
  /\ Len(last.commit[1].parent_hashes) = 1
  /\ load_commit(objects, last.commit[1].parent_hashes[1]) # nullptr

(***************************************************************************)
(* C5: in a session of init followed by k >= 1 successful add-then-commit  *)
(* steps on main, log lists exactly k entries, one per commit made, newest *)
(* first, and the last entry is a commit without parents.                  *)
(***************************************************************************)
C5_LogListsCommits ==
  (linear /\ last.op = "log" /\ last.ret = "true" /\ Len(made) >= 1) =>
     /\ Len(last.out) = Len(made)
     /\ \A i \in 1..Len(made) : last.out[i].message = made[Len(made) + 1 - i]
     /\ last.out[Len(made)].parent_hashes = <<>>

(***************************************************************************)
(* C6: given HEAD = C, a branch b at T, C # T and a common ancestor,       *)
(* merge(b) creates one merge commit whose parent list is exactly <<C, T>>.*)
(***************************************************************************)
C6_MergeParents ==
  [][(MergeStep /\ MergeGiven(last'.arg)) =>
       /\ last'.commit # nullptr
       /\ last'.commit[1].parent_hashes =
            <<head_file, branches[last'.arg].commit_hash>>]_vars

(***************************************************************************)
(* C7: the file table of a merge commit is the full file table of the      *)
(* current commit C with the merge decisions applied: a file of C that     *)
(* neither side changed since the base is in the merge commit with the     *)
(* blob hash it has in C.                                                  *)
(***************************************************************************)
C7_UnchangedFilesKept ==
  [][(MergeStep /\ MergeGiven(last'.arg) /\ last'.commit # nullptr) =>
       \A T \in {branches[last'.arg].commit_hash} :
       \A base \in {find_lowest_common_ancestor(objects, head_file, T)} :
       \A changes_c \in {get_file_changes(objects, base, head_file)},
          changes_t \in {get_file_changes(objects, base, T)},
          current \in {FilesOf(objects, head_file)},
          files \in {last'.commit[1].file_blobs} :
       \A f \in DOMAIN current :
            (f \notin DOMAIN changes_c /\ f \notin DOMAIN changes_t)
            => (f \in DOMAIN files /\ files[f] = current[f])]_vars

(***************************************************************************)
(* C8: the merge commit maps a file changed only by the target to the      *)
(* target's blob, a file changed by both to the same blob to that blob, a  *)
(* file changed by both to different blobs to the hash of a stored blob    *)
(* whose content is merge_content(base, ours, theirs), and a file changed  *)
(* only by the current side to the current commit's blob.                  *)
(***************************************************************************)
C8_MergeDecisions ==
  [][(MergeStep /\ MergeGiven(last'.arg)) =>
       /\ last'.commit # nullptr
       /\ \A T \in {branches[last'.arg].commit_hash} :
          \A base \in {find_lowest_common_ancestor(objects, head_file, T)} :
          \A changes_c \in {get_file_changes(objects, base, head_file)},
             changes_t \in {get_file_changes(objects, base, T)},
             base_files \in {FilesOf(objects, base)},
             files \in {last'.commit[1].file_blobs} :
          /\ \A f \in DOMAIN changes_t \cup DOMAIN changes_c : f \in DOMAIN files
          /\ \A f \in DOMAIN changes_t \ DOMAIN changes_c : files[f] = changes_t[f]
          /\ \A f \in DOMAIN changes_c \ DOMAIN changes_t : files[f] = changes_c[f]
          /\ \A f \in (DOMAIN changes_c \cap DOMAIN changes_t)
                        \ Conflicting(changes_c, changes_t) :
               files[f] = changes_t[f]
          /\ \A f \in Conflicting(changes_c, changes_t) :
               /\ files[f] \in DOMAIN objects'
               /\ f \in DOMAIN base_files =>
                    StoredContent(objects', files[f]) =
                      merge_files(StoredContent(objects, base_files[f]),
                                  StoredContent(objects, changes_c[f]),
                                  StoredContent(objects, changes_t[f]))]_vars

(***************************************************************************)
(* C9: conflicts are not fatal and are recorded: given HEAD = C, a branch  *)
(* b at T, C # T and a common ancestor, merge(b) returns true and creates  *)
(* the merge commit; every file both sides changed to different blobs is   *)
(* reported as a conflict and is in the merge commit's file table.         *)
(***************************************************************************)
C9_ConflictsRecorded ==
  [][(MergeStep /\ MergeGiven(last'.arg)) =>
       /\ last'.ret = "true"
       /\ last'.commit # nullptr
       /\ \A T \in {branches[last'.arg].commit_hash} :
          \A f \in ConflictFiles(objects,
                     find_lowest_common_ancestor(objects, head_file, T), head_file, T) :
               /\ f \in last'.conflicts
               /\ f \in DOMAIN last'.commit[1].file_blobs]_vars

(***************************************************************************)
(* C10: after a merge that creates a merge commit, the merge commit can be *)
(* loaded from the object store by its hash, and HEAD and the pointer of   *)
(* the current branch equal the merge commit's hash.                       *)
(***************************************************************************)
C10_MergeCommitStored ==
  (last.op = "merge" /\ last.commit # nullptr) =>
     /\ load_commit(objects, last.commit[1].hash) # nullptr
     /\ SameCommit(load_commit(objects, last.commit[1].hash)[1], last.commit[1])
     /\ head_file = last.commit[1].hash
     /\ current_branch \in DOMAIN branches
     /\ branches[current_branch].commit_hash = last.commit[1].hash

(***************************************************************************)
(* C11: merge(b) when HEAD equals the commit hash of branch b reports      *)
(* "already up to date", returns success, creates no commit and leaves the *)
(* object store, HEAD, every branch pointer and the current branch         *)
(* unchanged.                                                              *)
(***************************************************************************)
C11_UpToDateIsNoOp ==
  [][(/\ MergeStep
      /\ is_initialized
      /\ last'.arg \in DOMAIN branches
      /\ head_file = branches[last'.arg].commit_hash) =>
       /\ last'.ret = "true"
       /\ last'.report = "Already up to date"
       /\ last'.commit = nullptr
       /\ UNCHANGED <<objects, head_file, refs, branches, current_branch>>]_vars

\* merge of a branch that points at the HEAD commit returned
C11_Witness ==
  /\ last.op = "merge"
  /\ last.ret = "true"
  /\ last.report = "Already up to date"
  /\ head_file # <<>>
  /\ last.arg \in DOMAIN branches
  /\ branches[last.arg].commit_hash = head_file

(***************************************************************************)
(* C12: every merge that fails (the named branch does not exist, or the    *)
(* current and target commits have no common ancestor, also when HEAD is   *)
(* empty and the target is not) returns a failure and leaves the object    *)
(* store, HEAD, every branch pointer and the current branch unchanged: no  *)
(* merge commit is created.  The histories are finite first-parent chains. *)
(***************************************************************************)
C12_FailedMergeChangesNothing ==
  [][MergeStep =>
       /\ (/\ is_initialized
           /\ \/ last'.arg \notin DOMAIN branches
              \/ /\ head_file # branches[last'.arg].commit_hash
                 /\ ~get_commit_ancestors_loops(objects, head_file)
                 /\ ~get_commit_ancestors_loops(objects, branches[last'.arg].commit_hash)
                 /\ CommonAncestors(objects, head_file,
                                    branches[last'.arg].commit_hash) = {})
          => last'.ret = "false"
       /\ last'.ret = "false" =>
            /\ last'.commit = nullptr
            /\ UNCHANGED <<objects, head_file, refs, branches, current_branch>>]_vars

\* a merge of unrelated histories failed while the target has commits
C12_Witness ==
  /\ last.op = "merge"
  /\ last.ret = "false"
  /\ last.report = "No common ancestor found"
  /\ last.arg \in DOMAIN branches
  /\ load_commit(objects, branches[last.arg].commit_hash) # nullptr

(***************************************************************************)
(* Vocabulary of the properties of the history and file-table functions.   *)
(***************************************************************************)
\* a commit is stored under the hash
InStore(objs, hash) == load_commit(objs, hash) # nullptr

\* the parent list of the commit stored under the hash
ParentsOf(objs, hash) == load_commit(objs, hash)[1].parent_hashes

\* the first element of sq that is in S, as a set of at most one element
FirstOfIn(sq, S) ==
  {sq[i] : i \in {j \in 1..Len(sq) : sq[j] \in S /\ \A k \in 1..(j - 1) : sq[k] \notin S}}

(***************************************************************************)
(* C13: merge_content(b, o, t) returns o when o = t; otherwise t when      *)
(* b = o; otherwise o when b = t; otherwise a text that begins with b and  *)
(* continues with a marker line, o, a separator marker, t and a closing    *)
(* marker, in that order.                                                  *)
(***************************************************************************)
C13_MergeContent ==
  last.op = "merge_files" =>
    \A b \in {last.arg[1]}, o \in {last.arg[2]}, t \in {last.arg[3]} :
       /\ o = t => last.out = o
       /\ (o # t /\ b = o) => last.out = t
       /\ (o # t /\ b # o /\ b = t) => last.out = o
       /\ (o # t /\ b # o /\ b # t) =>
            last.out = b \o marker_head \o o \o marker_sep \o t \o marker_end

\* merge_files was called with three different contents
C13_Witness ==
  /\ last.op = "merge_files"
  /\ last.arg[1] # last.arg[2]
  /\ last.arg[1] # last.arg[3]
  /\ last.arg[2] # last.arg[3]
  /\ Len(last.out) > Len(last.arg[1]) + Len(last.arg[2]) + Len(last.arg[3])

(***************************************************************************)
(* C14: for every store content and every pair of hashes a, b,             *)
(* lowest_common_ancestor(a, b) returns the first element of ancestors(b)  *)
(* that is also an element of ancestors(a), and returns none exactly when  *)
(* ancestors(a) and ancestors(b) share no hash.                            *)
(***************************************************************************)
C14_FirstCommonAncestor ==
  last.op = "find_lowest_common_ancestor" =>
    /\ last.ret = "returned"
    /\ \A A \in {SeqToSet(get_commit_ancestors(objects, last.arg[1]))},
          B \in {get_commit_ancestors(objects, last.arg[2])} :
         /\ (A \cap SeqToSet(B) = {}) <=> (last.out = <<>>)
         /\ (A \cap SeqToSet(B) # {}) => last.out \in FirstOfIn(B, A)

(***************************************************************************)
(* C15: for every commit x created by commit or merge in the repository,   *)
(* lowest_common_ancestor(x, x) returns x, a hash that identifies that     *)
(* commit, and never none.                                                 *)
(***************************************************************************)
C15_SelfAncestor ==
  (last.op \in {"commit", "merge"} /\ last.commit # nullptr) =>
     /\ last.commit[1].hash # <<>>
     /\ find_lowest_common_ancestor(objects, last.commit[1].hash, last.commit[1].hash)
          = last.commit[1].hash

(***************************************************************************)
(* C16: when ancestors(h) returns, its result is the first-parent chain of *)
(* h: h itself if it is in the store, then the first parent of each listed *)
(* commit, in order, ending at the first commit with an empty parent list  *)
(* or just before the first hash absent from the store; second and later   *)
(* parents are never followed; for a root commit r it is exactly <<r>>.    *)
(***************************************************************************)
C16_FirstParentChain ==
  (last.op = "get_commit_ancestors" /\ last.ret = "returned") =>
    \A h \in {last.arg}, r \in {last.out} :
       /\ ~InStore(objects, h) => r = <<>>
       /\ InStore(objects, h) =>
            /\ Len(r) >= 1
            /\ r[1] = h
            /\ \A i \in 1..Len(r) : InStore(objects, r[i])
            /\ \A i \in 1..(Len(r) - 1) :
                 /\ ParentsOf(objects, r[i]) # <<>>
                 /\ r[i + 1] = ParentsOf(objects, r[i])[1]
            /\ \/ ParentsOf(objects, r[Len(r)]) = <<>>
               \/ ~InStore(objects, ParentsOf(objects, r[Len(r)])[1])
            /\ ParentsOf(objects, h) = <<>> => r = <<h>>

\* the ancestors of a merge commit were listed: three commits, the second
\* parent not among them
C16_Witness ==
  /\ last.op = "get_commit_ancestors"
  /\ last.ret = "returned"
  /\ Len(last.out) = 3
  /\ Len(ParentsOf(objects, last.arg)) = 2
  /\ ~InSeq(ParentsOf(objects, last.arg)[2], last.out)

(***************************************************************************)
(* C17: ancestors(h), and therefore lowest_common_ancestor and merge,      *)
(* terminates for every store content, also when first-parent links form a *)
(* cycle.                                                                  *)
(***************************************************************************)
C17_Terminates ==
  last.op \in {"get_commit_ancestors", "find_lowest_common_ancestor", "merge"} =>
     last.ret # "hangs"

(***************************************************************************)
(* C18: for commits from and to present in the store, file_changes(from,   *)
(* to) is exactly the mapping f -> to.file_table[f] over the files f of    *)
(* to's file table that are absent from from's file table or have another  *)
(* blob hash there; files present only in from never appear in the result. *)
(***************************************************************************)
C18_FileChanges ==
  (/\ last.op = "get_file_changes"
   /\ InStore(objects, last.arg[1])
   /\ InStore(objects, last.arg[2])) =>
    \A from_table \in {FilesOf(objects, last.arg[1])},
       to_table \in {FilesOf(objects, last.arg[2])} :
       /\ DOMAIN last.out \subseteq DOMAIN to_table
       /\ \A f \in DOMAIN to_table :
            /\ (f \in DOMAIN last.out) <=>
                 (f \notin DOMAIN from_table \/ from_table[f] # to_table[f])
            /\ f \in DOMAIN last.out => last.out[f] = to_table[f]
       /\ \A f \in DOMAIN from_table \ DOMAIN to_table : f \notin DOMAIN last.out

\* the changes between two stored commits were computed: one file changed,
\* another is in the from commit only
C18_Witness ==
  /\ last.op = "get_file_changes"
  /\ InStore(objects, last.arg[1])
  /\ InStore(objects, last.arg[2])
  /\ last.out # EmptyMap
  /\ DOMAIN FilesOf(objects, last.arg[1]) \ DOMAIN FilesOf(objects, last.arg[2]) # {}

\* the stored record is a blob record
IsBlobRecord(data) == starts_with(data, kw_blob)

\* the hash written in the first line of a blob record
RecordHash(data) == substr(split(data, NL)[1], 5)

(***************************************************************************)
(* C19: every blob created by add or by merge, and every blob record in    *)
(* the object store, has hash = H(content), the file name excluded, and is *)
(* stored under the key H(content); blobs with the same content and        *)
(* different file names have the same hash and one store key.              *)
(***************************************************************************)
C19_BlobHashIsContentHash ==
  /\ \A f \in DOMAIN staging_area :
       staging_area[f].hash = sha1_hash(staging_area[f].content)
  /\ \A f \in DOMAIN staging_area, g \in DOMAIN staging_area :
       staging_area[f].content = staging_area[g].content =>
         staging_area[f].hash = staging_area[g].hash
  /\ \A h \in DOMAIN objects :
       IsBlobRecord(objects[h]) =>
         /\ h = sha1_hash(StoredContent(objects, h))
         /\ RecordHash(objects[h]) = h

\* two files with the same content are staged and a blob of that content is
\* in the store
C19_Witness ==
  \E f \in DOMAIN staging_area, g \in DOMAIN staging_area :
     /\ f # g
     /\ staging_area[f].content = staging_area[g].content
     /\ staging_area[f].hash \in DOMAIN objects
     /\ IsBlobRecord(objects[staging_area[f].hash])

(***************************************************************************)
(* C20: the object store is write-once: once a record is stored under a    *)
(* hash, no later step changes or removes the record stored under that     *)
(* hash; storing content that is already present does not change the       *)
(* stored record.                                                          *)
(***************************************************************************)
C20_WriteOnce ==
  [][\A h \in DOMAIN objects : h \in DOMAIN objects' /\ objects'[h] = objects[h]]_vars

(***************************************************************************)
(* Vocabulary of the properties of the codecs and of diff.                 *)
(***************************************************************************)
\* a numeric field: one or more decimal digits
AllDigits(s) == s # <<>> /\ \A i \in 1..Len(s) : IsDigit(s[i])

\* the lines of a commit record: the five tagged header lines with numeric
\* timestamp and parent count, as many parent lines as declared, the files
\* line with a numeric count and as many file lines as declared
WellFormedCommit(lines) ==
  /\ Len(lines) >= 6
  /\ starts_with(lines[1], kw_commit)
  /\ starts_with(lines[2], kw_message)
  /\ starts_with(lines[3], kw_author)
  /\ starts_with(lines[4], kw_timestamp)
  /\ starts_with(lines[5], kw_parents)
  /\ AllDigits(substr(lines[4], 10))
  /\ AllDigits(substr(lines[5], 8))
  /\ \E n \in {stoul(substr(lines[5], 8))} :
       /\ Len(lines) >= 6 + n
       /\ \A i \in 6..(5 + n) : starts_with(lines[i], kw_parent)
       /\ starts_with(lines[6 + n], kw_files)
       /\ AllDigits(substr(lines[6 + n], 6))
       /\ \E m \in {stoul(substr(lines[6 + n], 6))} :
            /\ Len(lines) >= 6 + n + m
            /\ \A i \in (7 + n)..(6 + n + m) : starts_with(lines[i], kw_file)

\* the lines of a blob record: three tagged header lines, a numeric length
WellFormedBlob(lines) ==
  /\ Len(lines) >= 3
  /\ starts_with(lines[1], kw_blob)
  /\ starts_with(lines[2], kw_filename)
  /\ starts_with(lines[3], kw_content)
  /\ AllDigits(substr(lines[3], 8))

\* the lines of a branch record: two tagged lines
WellFormedBranch(lines) ==
  /\ Len(lines) >= 2
  /\ starts_with(lines[1], kw_branch)
  /\ starts_with(lines[2], kw_commit)

\* the entries of line_diff for the line index i
EntriesAt(old_lines, new_lines, i) ==
  IF i > Len(old_lines) THEN <<<<"+", " ">> \o new_lines[i]>>
  ELSE IF i > Len(new_lines) THEN <<<<"-", " ">> \o old_lines[i]>>
  ELSE IF old_lines[i] # new_lines[i]
  THEN <<<<"-", " ">> \o old_lines[i], <<"+", " ">> \o new_lines[i]>>
  ELSE <<<<" ", " ">> \o old_lines[i]>>

Larger(a, b) == IF a >= b THEN a ELSE b

\* the section of diff for file f of the file tables A and B
SectionOf(objs, A, B, f) ==
  IF f \notin DOMAIN A
  THEN DiffHeader("new", f) \o PrefixLines(<<"+">>, split(StoredContent(objs, B[f]), NL))
  ELSE IF f \notin DOMAIN B
  THEN DiffHeader("deleted", f) \o PrefixLines(<<"-">>, split(StoredContent(objs, A[f]), NL))
  ELSE IF A[f] # B[f]
  THEN DiffHeader("modified", f) \o
       compute_diff(StoredContent(objs, A[f]), StoredContent(objs, B[f]))
  ELSE <<>>

\* every branch, in memory and in refs, is filed under its own name
BranchNamesUnique ==
  /\ \A n \in DOMAIN branches : branches[n].name = n
  /\ \A n \in DOMAIN refs :
       /\ Branch_from_string(refs[n]) # nullptr
       /\ Branch_from_string(refs[n])[1].name = n

\* the step is a call of the operation op
Call(op) == steps' = steps + 1 /\ last'.op = op

(***************************************************************************)
(* C21: for every commit c, Commit::from_string(c.to_string()) returns a   *)
(* commit equal to c in message, author, timestamp, parent list (same      *)
(* order) and file table.                                                  *)
(***************************************************************************)
C21_CommitRoundTrip ==
  last.op = "Commit_round_trip" =>
    /\ last.ret = "returned"
    /\ last.out # nullptr
    /\ last.out[1].message = last.arg.message
    /\ last.out[1].author = last.arg.author
    /\ last.out[1].timestamp = last.arg.timestamp
    /\ last.out[1].parent_hashes = last.arg.parent_hashes
    /\ last.out[1].file_blobs = last.arg.file_blobs

(***************************************************************************)
(* C22: decoding rejects every malformed record by returning no object: a  *)
(* wrong or missing tag, a missing field line (a missing files line, fewer *)
(* parent or file lines than declared), a non-numeric count or timestamp.  *)
(* It raises no other error and returns no partially populated object.     *)
(***************************************************************************)
C22_MalformedRejected ==
  /\ (last.op = "Commit_from_string" /\ ~WellFormedCommit(split(last.arg, NL)))
       => (last.ret = "returned" /\ last.out = nullptr)
  /\ (last.op = "Blob_from_string" /\ ~WellFormedBlob(split(last.arg, NL)))
       => (last.ret = "returned" /\ last.out = nullptr)
  /\ (last.op = "Branch_from_string" /\ ~WellFormedBranch(split(last.arg, NL)))
       => (last.ret = "returned" /\ last.out = nullptr)

(***************************************************************************)
(* C23: line_diff(old, new) emits, for the line indexes 0..max-1 in order, *)
(* "added" where only new has a line, "removed" where only old has one,    *)
(* "removed" then "added" where the lines differ and "unchanged" where     *)
(* they are equal; line_diff(c, c) has only "unchanged" entries, one per   *)
(* line of c.                                                              *)
(***************************************************************************)
C23_LineDiff ==
  last.op = "compute_diff" =>
    \A old_lines \in {split(last.arg[1], NL)}, new_lines \in {split(last.arg[2], NL)} :
       /\ last.out = Flatten([i \in 1..Larger(Len(old_lines), Len(new_lines)) |->
                                EntriesAt(old_lines, new_lines, i)])
       /\ last.arg[1] = last.arg[2] =>
            /\ Len(last.out) = Len(old_lines)
            /\ \A i \in 1..Len(last.out) : last.out[i] = <<" ", " ">> \o old_lines[i]

\* a diff with an unchanged line and a changed line was computed
C23_Witness ==
  /\ last.op = "compute_diff"
  /\ \E i \in 1..Len(last.out) : last.out[i][1] = " "
  /\ \E i \in 1..(Len(last.out) - 1) : last.out[i][1] = "-" /\ last.out[i + 1][1] = "+"

(***************************************************************************)
(* C24: diff(A, B) for two stored commits covers the union of the file     *)
(* names of both file tables: a file only in B yields an added-file        *)
(* section with one "+" line per line of B's blob, a file only in A a      *)
(* removed-file section with one "-" line per line of A's blob, a file     *)
(* with different blob hashes the line_diff of the two contents, a file    *)
(* with the same blob hash nothing; diff fails when either commit is not   *)
(* in the store.                                                           *)
(***************************************************************************)
C24_DiffCoversFiles ==
  (last.op = "diff" /\ is_initialized) =>
    IF ~InStore(objects, last.arg[1]) \/ ~InStore(objects, last.arg[2])
    THEN last.ret = "false"
    ELSE /\ last.ret = "true"
         /\ \A A \in {FilesOf(objects, last.arg[1])}, B \in {FilesOf(objects, last.arg[2])} :
            \A names \in {SortedKeys(DOMAIN A \cup DOMAIN B)} :
              last.out = Flatten([i \in 1..Len(names) |->
                                    SectionOf(objects, A, B, names[i])])

(***************************************************************************)
(* C25: branch(n) with a name that already exists fails with an            *)
(* already-exists error and leaves the set of branches, every branch       *)
(* pointer, HEAD and the object store unchanged; branch names stay unique. *)
(***************************************************************************)
C25_ExistingBranchRefused ==
  /\ []BranchNamesUnique
  /\ [][(Call("branch") /\ is_initialized /\ last'.arg \in DOMAIN branches) =>
          /\ last'.ret = "false"
          /\ last'.report = "Branch already exists"
          /\ UNCHANGED <<branches, refs, head_file, objects>>]_vars

\* branch was refused for the name of a branch that points at a commit
C25_Witness ==
  /\ last.op = "branch"
  /\ last.ret = "false"
  /\ last.report = "Branch already exists"
  /\ branches[last.arg].commit_hash # <<>>

(***************************************************************************)
(* C26: a successful branch(n) adds exactly one branch, n, whose commit    *)
(* pointer equals HEAD (empty if there are no commits yet), and leaves     *)
(* HEAD, the current branch, the staging area, the object store and every  *)
(* other branch unchanged.                                                 *)
(***************************************************************************)
C26_BranchAtHead ==
  [][(Call("branch") /\ last'.ret = "true") =>
       /\ last'.arg \notin DOMAIN branches
       /\ DOMAIN branches' = DOMAIN branches \cup {last'.arg}
       /\ branches'[last'.arg].name = last'.arg
       /\ branches'[last'.arg].commit_hash = head_file
       /\ \A n \in DOMAIN branches : branches'[n] = branches[n]
       /\ LoadBranches(refs') = branches'
       /\ UNCHANGED <<head_file, current_branch, staging_area, objects>>]_vars

\* a branch was created at a HEAD that names a stored commit
C26_Witness ==
  /\ last.op = "branch"
  /\ last.ret = "true"
  /\ InStore(objects, head_file)
  /\ branches[last.arg].commit_hash = head_file

(***************************************************************************)
(* C27: checkout(b) for an existing branch b makes b the current branch    *)
(* and HEAD equal to b's commit hash, also when b has no commits yet, so   *)
(* that HEAD and the current branch agree afterwards.                      *)
(***************************************************************************)
C27_CheckoutBranch ==
  [][(Call("checkout") /\ is_initialized /\ last'.arg \in DOMAIN branches) =>
       /\ last'.ret = "true"
       /\ current_branch' = last'.arg
       /\ head_file' = branches[last'.arg].commit_hash]_vars

(***************************************************************************)
(* C28: checkout(t) where t is neither a branch name nor the hash of a     *)
(* stored commit fails with a not-found error and leaves HEAD, the current *)
(* branch and all branch pointers unchanged.                               *)
(***************************************************************************)
C28_UnknownTargetRefused ==
  [][(/\ Call("checkout")
      /\ is_initialized
      /\ last'.arg \notin DOMAIN branches
      /\ ~InStore(objects, last'.arg)) =>
       /\ last'.ret = "false"
       /\ last'.report = "Target not found"
       /\ UNCHANGED <<head_file, current_branch, branches, refs>>]_vars

\* checkout of an unknown target was refused while HEAD names a commit
C28_Witness ==
  /\ last.op = "checkout"
  /\ last.ret = "false"
  /\ last.report = "Target not found"
  /\ InStore(objects, head_file)

(***************************************************************************)
(* C29: commit with an empty staging area fails with a no-changes-staged   *)
(* error and changes nothing; a successful commit clears the staging area, *)
(* so a commit issued immediately after it fails with that error.          *)
(***************************************************************************)
C29_EmptyStagingRefused ==
  [][Call("commit") =>
       /\ (is_initialized /\ staging_area = EmptyMap) =>
            /\ last'.ret = "false"
            /\ last'.report = "No changes staged for commit"
            /\ UNCHANGED <<objects, refs, head_file, branches, staging_area>>
       /\ last'.ret = "true" => staging_area' = EmptyMap
       /\ (last.op = "commit" /\ last.ret = "true") =>
            /\ last'.ret = "false"
            /\ last'.report = "No changes staged for commit"]_vars

\* a commit was refused for want of staged files after a commit was made
C29_Witness ==
  /\ last.op = "commit"
  /\ last.ret = "false"
  /\ last.report = "No changes staged for commit"
  /\ made # <<>>
  /\ DOMAIN objects # {}

(***************************************************************************)
(* C30: init on an uninitialized directory yields a repository with        *)
(* exactly one branch, main, whose commit hash is empty, with main as the  *)
(* current branch and an empty HEAD; init on an initialized repository     *)
(* reports success and changes nothing.                                    *)
(***************************************************************************)
C30_Init ==
  [][Call("init") =>
       /\ last'.ret = "true"
       /\ ~is_initialized =>
            /\ is_initialized'
            /\ DOMAIN branches' = {main}
            /\ branches'[main].commit_hash = <<>>
            /\ LoadBranches(refs') = branches'
            /\ current_branch' = main
            /\ head_file' = <<>>
       /\ is_initialized =>
            UNCHANGED <<disk, is_initialized, branches, current_branch, staging_area>>]_vars

\* init was called on a repository that holds objects and two branches
C30_Witness ==
  /\ last.op = "init"
  /\ last.report = "MiniGit repository already initialized"
  /\ DOMAIN branches = {main, feat}
  /\ DOMAIN objects # {}

(***************************************************************************)
(* C31: the current branch name is persisted: a process that opens an      *)
(* initialized repository has the current branch the previous process left *)
(* (the branch of its last successful checkout).                           *)
(***************************************************************************)
C31_CurrentBranchPersisted ==
  [][(Call("open") /\ is_initialized) => current_branch' = current_branch]_vars


(***************************************************************************)
(* C32: for each command (init, add, commit, log, branch, checkout, merge, *)
(* diff, status) that returns, the exit code of the process is non-zero    *)
(* exactly when the command reported an error: the core operation returned *)
(* false after printing its error, or status printed that the directory is *)
(* not a repository.                                                       *)
(***************************************************************************)
C32_ExitCode ==
  (/\ last.op \in {"init", "add", "commit", "log", "branch", "checkout", "merge",
                   "diff", "status"}
   /\ last.ret \in {"true", "false", "void"})
  => ((last.ret = "false" \/ last.report = "Not a MiniGit repository")
        <=> main_exit(last) # 0)


(***************************************************************************)
(* C33: log returns for every store content, also when the first-parent    *)
(* links form a cycle: it prints the commits on the first-parent chain     *)
(* from HEAD and stops at a root commit, at a hash that is not in the      *)
(* store, or after 101 entries.                                            *)
(***************************************************************************)
C33_LogStops ==
  (last.op = "log" /\ is_initialized) =>
    /\ last.ret = "true"
    /\ Len(last.out) <= LogLimit + 1
    /\ (last.out = <<>>) <=> (load_commit(objects, head_file) = nullptr)
    /\ last.out # <<>> => <<last.out[1]>> = load_commit(objects, head_file)
    /\ \A i \in 1..(Len(last.out) - 1) :
         /\ ~is_initial_commit(last.out[i])
         /\ load_commit(objects, last.out[i].parent_hashes[1]) = <<last.out[i + 1]>>
    /\ last.out # <<>> =>
         \A e \in {last.out[Len(last.out)]} :
           \/ is_initial_commit(e)
           \/ load_commit(objects, e.parent_hashes[1]) = nullptr
           \/ Len(last.out) = LogLimit + 1

\* log ran on a store whose first-parent links form a cycle and stopped at the limit
C33_Witness ==
  /\ last.op = "log"
  /\ last.ret = "true"
  /\ Len(last.out) = LogLimit + 1
  /\ \E i \in 2..Len(last.out) : last.out[i] = last.out[1]


(***************************************************************************)
(* C34: commit and merge move the pointer of the current branch only:      *)
(* every other branch, the merged branch included, keeps its commit hash   *)
(* in memory and on disk, and the set of branch names stays the same.      *)
(***************************************************************************)
C34_OnlyCurrentBranchMoves ==
  [][(Call("commit") \/ Call("merge")) =>
       /\ DOMAIN branches' = DOMAIN branches
       /\ DOMAIN refs' = DOMAIN refs
       /\ current_branch' = current_branch
       /\ \A n \in DOMAIN branches \ {current_branch} :
            /\ branches'[n] = branches[n]
            /\ refs'[n] = refs[n]]_vars

\* a merge made a commit and moved the current branch while the merged
\* branch still points at its commit
C34_Witness ==
  /\ last.op = "merge"
  /\ last.commit # nullptr
  /\ last.arg # current_branch
  /\ last.arg \in DOMAIN branches
  /\ branches[last.arg].commit_hash = cT
  /\ branches[current_branch].commit_hash = last.commit[1].hash
  /\ branches[current_branch].commit_hash # cC


CommitRefsResolve(objs, c) ==
  /\ \A i \in 1..Len(c.parent_hashes) : load_commit(objs, c.parent_hashes[i]) # nullptr
  /\ \A f \in DOMAIN c.file_blobs : load_blob(objs, c.file_blobs[f]) # nullptr

C37_LcaSymmetric ==
  (last.op = "find_lowest_common_ancestor" /\ last.ret = "returned") =>
    last.out = find_lowest_common_ancestor(objects, last.arg[2], last.arg[1])

\* the two hashes are different commits and their common ancestor is a third one
C37_Witness ==
  /\ last.op = "find_lowest_common_ancestor"
  /\ last.ret = "returned"
  /\ last.arg[1] # last.arg[2]
  /\ last.out # <<>>
  /\ last.out \notin {last.arg[1], last.arg[2]}
  /\ Len(get_commit_ancestors(objects, last.arg[1])) > 1
  /\ Len(get_commit_ancestors(objects, last.arg[2])) > 1


(***************************************************************************)
(* C38: for every content (empty content and content with newlines         *)
(* included) and every file name, saving a blob and loading it by its hash *)
(* returns a blob with the same hash, file name and content.               *)
(***************************************************************************)
C38_BlobRoundTrip ==
  last.op = "Blob_round_trip" =>
    /\ last.ret = "returned"
    /\ last.out = <<Blob(last.arg[1], last.arg[2])>>


(***************************************************************************)
(* C39: on a directory that holds no repository each of add, commit, log,  *)
(* branch, checkout, merge and diff reports failure and changes nothing:   *)
(* the object store, the references and HEAD are not written and the       *)
(* staging area stays empty.                                               *)
(***************************************************************************)
C39_UninitializedRefused ==
  [][(/\ ~is_initialized
      /\ last'.op \in {"add", "commit", "log", "branch", "checkout", "merge", "diff"})
     => /\ last'.ret = "false"
        /\ UNCHANGED <<dir_exists, objects, refs, head_file>>
        /\ UNCHANGED <<is_initialized, current_branch, branches>>
        /\ staging_area = EmptyMap
        /\ staging_area' = EmptyMap]_vars

\* diff was refused in a second process, after calls that were refused as well
C39_Witness ==
  /\ last.op = "diff"
  /\ last.ret = "false"
  /\ last.report = "Not a MiniGit repository"
  /\ ~is_initialized
  /\ steps >= 3
  /\ ~dir_exists
  /\ objects = EmptyMap
  /\ refs = EmptyMap


(***************************************************************************)
(* C40: add(f) changes only the staging entry of f.  On an initialized     *)
(* repository, for a file that exists, it sets staging[f] to a blob of the *)
(* file's current content (an earlier entry of f is replaced: the last add *)
(* wins) and keeps every other entry; the object store, the references,    *)
(* HEAD, the current branch and the branch pointers are unchanged.  add of *)
(* a file that does not exist returns false and leaves the staging area    *)
(* unchanged.                                                              *)
(***************************************************************************)
C40_AddStagesOneFile ==
  [][\A f \in FileNames, present \in BOOLEAN, c \in Contents :
       add(f, present, c) =>
         /\ UNCHANGED <<dir_exists, objects, refs, head_file>>
         /\ UNCHANGED <<is_initialized, current_branch, branches>>
         /\ (is_initialized /\ present) =>
              /\ last'.ret = "true"
              /\ DOMAIN staging_area' = DOMAIN staging_area \cup {f}
              /\ staging_area'[f] = [hash |-> sha1_hash(c), content |-> c, filename |-> f]
              /\ \A g \in DOMAIN staging_area \ {f} : staging_area'[g] = staging_area[g]
         /\ ~present =>
              /\ last'.ret = "false"
              /\ staging_area' = staging_area]_vars

\* after a commit two files were staged, the last add succeeded, and the
\* store still holds only what the commit wrote
C40_Witness ==
  /\ last.op = "add"
  /\ last.ret = "true"
  /\ made # <<>>
  /\ DOMAIN staging_area = FileNames
  /\ \E f \in FileNames : staging_area[f].content # staging_area[last.arg].content
  /\ DOMAIN objects # {}
====
